---- MODULE Spec2Model ----
(***************************************************************************)
(* Verification model of hpc_submit_scripts: the option-resolution engine  *)
(* (python/opthandler.py), the analysis submit scripts                     *)
(* (analysis/lintf2_ether/{gmx,mdt}) and the simulation submit script      *)
(* (simulation/gmx/submit_gmx_mdrun.py).                                   *)
(*                                                                         *)
(* Python strings are TLA+ strings (Len, SubSeq and \o work on them).      *)
(* Python values are records [t |-> type, s |-> str(value)].               *)
(* Python dicts are sequences of records [k, v] in insertion order.        *)
(* A command line is the token list that shlex.split hands to sbatch.      *)
(***************************************************************************)
EXTENDS Integers, Sequences, FiniteSets, TLC

(***************************************************************************)
(* Bounds of the model.                                                    *)
(***************************************************************************)
MaxSecs == 3
MaxUSecs == 2

(***************************************************************************)
(* Strings.                                                                *)
(***************************************************************************)
CharAt(s, i) == SubSeq(s, i, i)

StartsWith(s, p) == Len(s) >= Len(p) /\ SubSeq(s, 1, Len(p)) = p

Contains(s, sub) ==
    \E i \in 1..(Len(s) - Len(sub) + 1) : SubSeq(s, i, i + Len(sub) - 1) = sub

RECURSIVE LStrip(_, _)
LStrip(s, c) ==
    IF Len(s) > 0 /\ CharAt(s, 1) = c THEN LStrip(SubSeq(s, 2, Len(s)), c) ELSE s

RECURSIVE RStrip(_, _)
RStrip(s, c) ==
    IF Len(s) > 0 /\ CharAt(s, Len(s)) = c
    THEN RStrip(SubSeq(s, 1, Len(s) - 1), c)
    ELSE s

Strip(s) == RStrip(LStrip(s, " "), " ")

RECURSIVE ReplaceChar(_, _, _)
ReplaceChar(s, a, b) ==
    IF Len(s) = 0 THEN ""
    ELSE (IF CharAt(s, 1) = a THEN b ELSE CharAt(s, 1))
         \o ReplaceChar(SubSeq(s, 2, Len(s)), a, b)

UpperChars == "ABCDEFGHIJKLMNOPQRSTUVWXYZ"
LowerChars == "abcdefghijklmnopqrstuvwxyz"

LowerChar(c) ==
    IF \E i \in 1..26 : CharAt(UpperChars, i) = c
    THEN CharAt(LowerChars, CHOOSE i \in 1..26 : CharAt(UpperChars, i) = c)
    ELSE c

RECURSIVE Lower(_)
Lower(s) ==
    IF Len(s) = 0 THEN "" ELSE LowerChar(CharAt(s, 1)) \o Lower(SubSeq(s, 2, Len(s)))

Digits == "0123456789"

IsDigitChar(c) == \E i \in 1..10 : CharAt(Digits, i) = c

IsDigitStr(s) == Len(s) > 0 /\ \A i \in 1..Len(s) : IsDigitChar(CharAt(s, i))

DigitVal(c) == (CHOOSE i \in 1..10 : CharAt(Digits, i) = c) - 1

RECURSIVE StrToNat(_)
StrToNat(s) ==
    IF Len(s) = 0 THEN 0
    ELSE 10 * StrToNat(SubSeq(s, 1, Len(s) - 1)) + DigitVal(CharAt(s, Len(s)))

(* str.split(): the maximal runs of non-blank characters. *)
RECURSIVE SplitFrom(_, _, _)
SplitFrom(s, i, cur) ==
    IF i > Len(s) THEN (IF cur = "" THEN <<>> ELSE <<cur>>)
    ELSE IF CharAt(s, i) = " "
         THEN (IF cur = "" THEN <<>> ELSE <<cur>>) \o SplitFrom(s, i + 1, "")
         ELSE SplitFrom(s, i + 1, cur \o CharAt(s, i))

Split(s) == SplitFrom(s, 1, "")

RECURSIVE JoinWith(_, _)
JoinWith(toks, sep) ==
    IF Len(toks) = 0 THEN ""
    ELSE IF Len(toks) = 1 THEN toks[1]
    ELSE toks[1] \o sep \o JoinWith(Tail(toks), sep)

SeqToSet(q) == {q[i] : i \in 1..Len(q)}

NoDuplicates(q) == \A i, j \in 1..Len(q) : i # j => q[i] # q[j]

SeqsUpTo(S, n) == UNION {[1..k -> S] : k \in 1..n}

(***************************************************************************)
(* Python values.                                                          *)
(***************************************************************************)
PyNone == [t |-> "none", s |-> "None"]
PyTrue == [t |-> "bool", s |-> "True"]
PyFalse == [t |-> "bool", s |-> "False"]
PyInt(n) == [t |-> "int", s |-> ToString(n)]
PyFloat(x) == [t |-> "float", s |-> x]
PyStr(x) == [t |-> "str", s |-> x]

(* v in (None, True, False, ""): Python compares 0 == False and 1 == True. *)
InNoneTrueFalseEmpty(v) ==
    \/ v.t \in {"none", "bool"}
    \/ v.t = "int" /\ v.s \in {"0", "1"}
    \/ v.t = "float" /\ v.s \in {"0.0", "1.0", "-0.0"}
    \/ v.t = "str" /\ v.s = ""

(***************************************************************************)
(* Python dicts, in insertion order.                                       *)
(***************************************************************************)
DKeys(d) == {d[i].k : i \in 1..Len(d)}

DHas(d, key) == key \in DKeys(d)

DGet(d, key) == d[CHOOSE i \in 1..Len(d) : d[i].k = key].v

DSet(d, key, val) ==
    IF DHas(d, key)
    THEN [i \in 1..Len(d) |-> IF d[i].k = key THEN [k |-> key, v |-> val] ELSE d[i]]
    ELSE Append(d, [k |-> key, v |-> val])

RECURSIVE DUpdate(_, _)
DUpdate(d, e) ==
    IF Len(e) = 0 THEN d ELSE DUpdate(DSet(d, e[1].k, e[1].v), Tail(e))

DPop(d, key) == SelectSeq(d, LAMBDA p : p.k # key)

(***************************************************************************)
(* opthandler.convert_str with its default keyword arguments.  The literal *)
(* forms covered are the ones the bounded inputs contain: a signed run of  *)
(* digits, a signed decimal with one point, and inf / nan.                 *)
(***************************************************************************)
UnsignedPart(s) ==
    IF Len(s) > 0 /\ CharAt(s, 1) \in {"+", "-"} THEN SubSeq(s, 2, Len(s)) ELSE s

IsNegative(s) == Len(s) > 0 /\ CharAt(s, 1) = "-"

IsIntLiteral(s) == IsDigitStr(UnsignedPart(s))

IntRepr(s) ==
    LET n == StrToNat(UnsignedPart(s))
    IN  (IF IsNegative(s) /\ n # 0 THEN "-" ELSE "") \o ToString(n)

PointAt(s) == CHOOSE i \in 1..Len(s) : CharAt(s, i) = "."

IsFloatLiteral(s) ==
    LET u == UnsignedPart(s)
    IN  \/ u \in {"inf", "infinity", "nan"}
        \/ IsDigitStr(u)
        \/ /\ Cardinality({i \in 1..Len(u) : CharAt(u, i) = "."}) = 1
           /\ LET ip == SubSeq(u, 1, PointAt(u) - 1)
                  fp == SubSeq(u, PointAt(u) + 1, Len(u))
              IN  /\ ip = "" \/ IsDigitStr(ip)
                  /\ fp = "" \/ IsDigitStr(fp)
                  /\ ip # "" \/ fp # ""

FloatRepr(s) ==
    LET u == UnsignedPart(s)
        sign == IF IsNegative(s) THEN "-" ELSE ""
    IN  IF u \in {"inf", "infinity"} THEN sign \o "inf"
        ELSE IF u = "nan" THEN "nan"
        ELSE IF IsDigitStr(u) THEN sign \o ToString(StrToNat(u)) \o ".0"
        ELSE LET ip == SubSeq(u, 1, PointAt(u) - 1)
                 fp == RStrip(SubSeq(u, PointAt(u) + 1, Len(u)), "0")
             IN  sign \o ToString(StrToNat(ip)) \o "." \o (IF fp = "" THEN "0" ELSE fp)

(* convert_str(s, bool_01=True). *)
convert_str_bool_01(s) ==
    LET input_str == Lower(Strip(s))
    IN  IF input_str = "none" THEN PyNone
        ELSE IF input_str \in {"true", "1"} THEN PyTrue
        ELSE IF input_str \in {"false", "0"} THEN PyFalse
        ELSE IF IsIntLiteral(input_str) THEN [t |-> "int", s |-> IntRepr(input_str)]
        ELSE IF IsFloatLiteral(input_str)
             THEN [t |-> "float", s |-> FloatRepr(input_str)]
        ELSE PyStr(s)

convert_str(s) ==
    LET input_str == Lower(Strip(s))
    IN  IF input_str = "none" THEN PyNone
        ELSE IF input_str = "true" THEN PyTrue
        ELSE IF input_str = "false" THEN PyFalse
        ELSE IF IsIntLiteral(input_str) THEN [t |-> "int", s |-> IntRepr(input_str)]
        ELSE IF IsFloatLiteral(input_str)
             THEN [t |-> "float", s |-> FloatRepr(input_str)]
        ELSE PyStr(s)

(***************************************************************************)
(* opthandler.optlist2dict(optlist, convert=True).                         *)
(***************************************************************************)
(* The loop without line 1008: the tokens are taken as they are. *)
RECURSIVE optlist2dict_scan_unstripped(_, _, _)
optlist2dict_scan_unstripped(optlist, optdict, last_flag) ==
    IF Len(optlist) = 0 THEN optdict
    ELSE LET opt == optlist[1]
         IN  IF StartsWith(opt, "-")
             THEN optlist2dict_scan_unstripped(Tail(optlist),
                                               DSet(optdict, LStrip(opt, "-"), ""),
                                               LStrip(opt, "-"))
             ELSE LET old == IF DHas(optdict, last_flag)
                             THEN DGet(optdict, last_flag) ELSE ""
                  IN  optlist2dict_scan_unstripped(
                          Tail(optlist),
                          Append(DPop(optdict, last_flag),
                                 [k |-> last_flag, v |-> old \o " " \o opt]),
                          last_flag)

RECURSIVE optlist2dict_scan(_, _, _)
optlist2dict_scan(optlist, optdict, last_flag) ==
    IF Len(optlist) = 0 THEN optdict
    ELSE LET opt == Strip(optlist[1])
         IN  IF StartsWith(opt, "-")
             THEN optlist2dict_scan(Tail(optlist),
                                    DSet(optdict, LStrip(opt, "-"), ""),
                                    LStrip(opt, "-"))
             ELSE LET old == IF DHas(optdict, last_flag)
                             THEN DGet(optdict, last_flag) ELSE ""
                  IN  optlist2dict_scan(
                          Tail(optlist),
                          Append(DPop(optdict, last_flag),
                                 [k |-> last_flag, v |-> old \o " " \o opt]),
                          last_flag)

RECURSIVE ConvertItems(_, _)
ConvertItems(items, acc) ==
    IF Len(items) = 0 THEN acc
    ELSE ConvertItems(Tail(items),
                      DSet(acc, Strip(items[1].k), convert_str(Strip(items[1].v))))

optlist2dict(optlist) == ConvertItems(optlist2dict_scan(optlist, <<>>, ""), <<>>)

(* Lines 1016-1017: convert=False, the values stay strings. *)
RECURSIVE StripItems(_, _)
StripItems(items, acc) ==
    IF Len(items) = 0 THEN acc
    ELSE StripItems(Tail(items),
                    DSet(acc, Strip(items[1].k), PyStr(Strip(items[1].v))))

optlist2dict_str(optlist) == StripItems(optlist2dict_scan(optlist, <<>>, ""), <<>>)

(***************************************************************************)
(* opthandler.optdict2list(optdict, skiped_opts, dumped_vals) with         *)
(* convert_to_str=True; skiped_opts and dumped_vals are sets of strings.   *)
(***************************************************************************)
RECURSIVE optdict2list(_, _, _)
optdict2list(optdict, skiped_opts, dumped_vals) ==
    IF Len(optdict) = 0 THEN <<>>
    ELSE LET opt == Strip(optdict[1].k)
             val == Strip(optdict[1].v.s)
             rest == optdict2list(Tail(optdict), skiped_opts, dumped_vals)
             flag == IF Len(opt) = 1 THEN <<"-" \o opt>>
                     ELSE IF Len(opt) > 1 THEN <<"--" \o opt>>
                     ELSE <<>>
         IN  IF val \in skiped_opts THEN rest
             ELSE IF val \in dumped_vals \/ val = "" THEN flag \o rest
             ELSE flag \o <<val>> \o rest

(***************************************************************************)
(* argparse.  A parser is the sequence of its add_argument calls: flag,    *)
(* dest, action ("store" or "store_true"), type, default, required and the *)
(* mutually exclusive group the option belongs to ("" for none), and the   *)
(* choices of its value ({} where any value is allowed).                   *)
(***************************************************************************)
Opt(flag, action, type, default, required, group) ==
    [flag |-> flag, dest |-> ReplaceChar(LStrip(flag, "-"), "-", "_"),
     action |-> action, type |-> type, default |-> default,
     required |-> required, group |-> group, choices |-> {}]

(* add_argument with the keywords dest and choices. *)
OptDest(flag, dest, action, type, default, required, choices) ==
    [flag |-> flag, dest |-> dest, action |-> action, type |-> type,
     default |-> default, required |-> required, group |-> "",
     choices |-> choices]

GmxParser == <<
    Opt("--system", "store", "str", PyNone, TRUE, ""),
    Opt("--settings", "store", "str", PyNone, TRUE, ""),
    Opt("--scripts", "store", "str", PyNone, TRUE, ""),
    Opt("--begin", "store", "float", PyInt(0), FALSE, ""),
    Opt("--end", "store", "float", PyNone, FALSE, ""),
    Opt("--every", "store", "float", PyInt(1), FALSE, ""),
    Opt("--beginfit", "store", "float", PyInt(-1), FALSE, ""),
    Opt("--endfit", "store", "float", PyInt(-1), FALSE, ""),
    Opt("--restart", "store", "float", PyInt(1000), FALSE, ""),
    Opt("--binwidth", "store", "float", PyFloat("0.005"), FALSE, ""),
    Opt("--zmin", "store", "float", PyInt(0), FALSE, ""),
    Opt("--zmax", "store", "float", PyNone, FALSE, ""),
    Opt("--slabwidth", "store", "float", PyFloat("0.1"), FALSE, ""),
    Opt("--discretize", "store_true", "", PyFalse, FALSE, "slab"),
    Opt("--center-slab", "store_true", "", PyFalse, FALSE, "slab"),
    Opt("--gmx-lmod", "store", "str", PyStr("palma/2019a/gmx2018-8_foss.sh"), FALSE, ""),
    Opt("--gmx-exe", "store", "str", PyStr("gmx"), FALSE, "") >>

MdtParser == <<
    Opt("--system", "store", "str", PyNone, TRUE, ""),
    Opt("--settings", "store", "str", PyNone, TRUE, ""),
    Opt("--scripts", "store", "str", PyNone, TRUE, ""),
    Opt("--begin", "store", "int", PyInt(0), FALSE, ""),
    Opt("--end", "store", "int", PyInt(-1), FALSE, ""),
    Opt("--every", "store", "int", PyInt(1), FALSE, ""),
    Opt("--nblocks", "store", "int", PyInt(1), FALSE, ""),
    Opt("--restart", "store", "int", PyInt(500), FALSE, ""),
    Opt("--binwidth", "store", "float", PyFloat("0.05"), FALSE, ""),
    Opt("--cutoff", "store", "float", PyFloat("3.0"), FALSE, ""),
    Opt("--atom-index", "store", "int", PyInt(0), FALSE, ""),
    Opt("--intermittency", "store", "int", PyInt(0), FALSE, ""),
    Opt("--lag-compare", "store", "int", PyInt(250), FALSE, ""),
    Opt("--min-block-size", "store", "int", PyInt(500), FALSE, ""),
    Opt("--max-gap-size", "store", "int", PyInt(50), FALSE, ""),
    Opt("--zmin", "store", "float", PyInt(0), FALSE, ""),
    Opt("--zmax", "store", "float", PyNone, FALSE, ""),
    Opt("--slabwidth", "store", "float", PyFloat("1.0"), FALSE, ""),
    Opt("--discretize", "store_true", "", PyFalse, FALSE, "slab"),
    Opt("--center-slab", "store_true", "", PyFalse, FALSE, "slab"),
    Opt("--py-lmod", "store", "str", PyStr("palma/2019a/python3-7-2.sh"), FALSE, ""),
    Opt("--py-exe", "store", "str", PyStr("gmx"), FALSE, ""),
    Opt("--mdt-path", "store", "str", PyStr("${HOME}/git/github/mdtools"), FALSE, "") >>

ActionOf(parser, dest) == parser[CHOOSE i \in 1..Len(parser) : parser[i].dest = dest]

(* The defaults a freshly built parser holds, in declaration order. *)
DeclaredDefaults(parser) ==
    [i \in 1..Len(parser) |-> [k |-> parser[i].dest, v |-> parser[i].default]]

(* set_defaults that leaves the parser's defaults as they were declared. *)
set_defaults_dropped(defaults, kwargs) == defaults

(* ArgumentParser.set_defaults with the given keyword arguments. *)
set_defaults(defaults, kwargs) == DUpdate(defaults, kwargs)

(* The type callable of an option applied to a string. *)
TypeOk(type, raw) ==
    CASE type = "float" -> IsFloatLiteral(Lower(Strip(raw)))
      [] type = "int" -> IsIntLiteral(Strip(raw))
      [] OTHER -> TRUE

TypeConv(type, raw) ==
    CASE type = "float" -> PyFloat(FloatRepr(Lower(Strip(raw))))
      [] type = "int" -> [t |-> "int", s |-> IntRepr(Strip(raw))]
      [] OTHER -> PyStr(raw)

EqualsAt(tok) ==
    IF \E i \in 1..Len(tok) : CharAt(tok, i) = "="
    THEN CHOOSE i \in 1..Len(tok) :
             CharAt(tok, i) = "=" /\ \A j \in 1..(i - 1) : CharAt(tok, j) # "="
    ELSE 0

(* A token that may follow an option as its argument. *)
IsValueToken(tok) ==
    \/ ~StartsWith(tok, "-")
    \/ Contains(tok, " ")
    \/ IsIntLiteral(tok) \/ (IsFloatLiteral(tok) /\ UnsignedPart(tok) \notin {"inf", "infinity", "nan"})

(* Declared options an option string selects: itself, or the options it   *)
(* abbreviates.                                                           *)
MatchingOpts(parser, name) ==
    LET exact == {i \in 1..Len(parser) : parser[i].flag = name}
    IN  IF exact # {} THEN exact
        ELSE {i \in 1..Len(parser) : StartsWith(parser[i].flag, name)}

RECURSIVE ParseScan(_, _, _)
ParseScan(parser, argv, st) ==
    IF st.err # "" \/ Len(argv) = 0 THEN st
    ELSE LET tok == argv[1]
             eq == EqualsAt(tok)
             name == IF eq > 0 THEN SubSeq(tok, 1, eq - 1) ELSE tok
             matches == MatchingOpts(parser, name)
         IN  IF ~StartsWith(tok, "--") \/ matches = {}
             THEN ParseScan(parser, Tail(argv), [st EXCEPT !.extras = Append(@, tok)])
             ELSE IF Cardinality(matches) > 1
             THEN [st EXCEPT !.err = "ambiguous option"]
             ELSE LET a == parser[CHOOSE i \in matches : TRUE]
                      clash == /\ a.group # ""
                               /\ \E d \in st.seen :
                                      d # a.dest /\ ActionOf(parser, d).group = a.group
                      hasval == eq > 0 \/ (Len(argv) >= 2 /\ IsValueToken(argv[2]))
                      raw == IF eq > 0 THEN SubSeq(tok, eq + 1, Len(tok))
                             ELSE argv[2]
                      rest == IF eq > 0 THEN Tail(argv) ELSE Tail(Tail(argv))
                  IN  IF clash THEN [st EXCEPT !.err = "not allowed with argument"]
                      ELSE IF a.action = "store_true"
                      THEN IF eq > 0 THEN [st EXCEPT !.err = "ignored explicit argument"]
                           ELSE ParseScan(parser, Tail(argv),
                                    [st EXCEPT !.ns = DSet(@, a.dest, PyTrue),
                                               !.seen = @ \cup {a.dest}])
                      ELSE IF ~hasval THEN [st EXCEPT !.err = "expected one argument"]
                      ELSE IF ~TypeOk(a.type, raw)
                      THEN [st EXCEPT !.err = "invalid value"]
                      ELSE IF a.choices # {} /\ TypeConv(a.type, raw) \notin a.choices
                      THEN [st EXCEPT !.err = "invalid choice"]
                      ELSE ParseScan(parser, rest,
                               [st EXCEPT !.ns = DSet(@, a.dest, TypeConv(a.type, raw)),
                                          !.seen = @ \cup {a.dest}])

(* Options not seen whose default is a string get the default converted   *)
(* by the option's type; required options not seen are an error.          *)
RECURSIVE ParseFinish(_, _, _)
ParseFinish(parser, i, st) ==
    IF st.err # "" \/ i > Len(parser) THEN st
    ELSE LET a == parser[i]
             v == DGet(st.ns, a.dest)
         IN  IF a.dest \in st.seen THEN ParseFinish(parser, i + 1, st)
             ELSE IF a.required THEN [st EXCEPT !.err = "required"]
             ELSE IF v.t = "str" /\ a.action = "store"
             THEN IF TypeOk(a.type, v.s)
                  THEN ParseFinish(parser, i + 1,
                           [st EXCEPT !.ns = DSet(@, a.dest, TypeConv(a.type, v.s))])
                  ELSE [st EXCEPT !.err = "invalid value"]
             ELSE ParseFinish(parser, i + 1, st)

(* ArgumentParser.parse_known_args(argv) with the defaults now in force:  *)
(* the namespace as a dict, the unrecognised tokens, and the error.       *)
parse_known_args(parser, defaults, argv) ==
    ParseFinish(parser, 1,
        ParseScan(parser, argv,
            [ns |-> defaults, seen |-> {}, extras |-> <<>>, err |-> ""]))


(* ArgumentParser.parse_args(argv): unrecognised tokens are an error. *)
parse_args(parser, argv) ==
    LET r == parse_known_args(parser, DeclaredDefaults(parser), argv)
    IN  IF r.err = "" /\ r.extras # <<>>
        THEN [r EXCEPT !.err = "unrecognized arguments"]
        ELSE r
(***************************************************************************)
(* The config file as read_config returns it: a function from the names of *)
(* the sections present to their items (option name, raw string value).    *)
(***************************************************************************)
Item(key, val) == [k |-> key, v |-> val]

has_section(config, sec) == sec \in DOMAIN config

(* conv_configparser_opts(config, converter = hyphens to underscores,     *)
(* sections, skip_missing_sec=True).                                      *)
RECURSIVE ConvSection(_, _)
ConvSection(items, acc) ==
    IF Len(items) = 0 THEN acc
    ELSE ConvSection(Tail(items),
                     DSet(DPop(acc, items[1].k),
                          ReplaceChar(items[1].k, "-", "_"), items[1].v))

conv_configparser_opts(config, sections) ==
    [sec \in DOMAIN config |->
        IF sec \in SeqToSet(sections)
        THEN ConvSection(config[sec], config[sec])
        ELSE config[sec]]

(* configparser2dict(config, sections, create_missing_secs=True,          *)
(* convert=True).                                                         *)
configparser2dict(config, sections) ==
    [sec \in SeqToSet(sections) |->
        IF ~has_section(config, sec) THEN <<>>
        ELSE [i \in 1..Len(config[sec]) |->
                 Item(config[sec][i].k, convert_str(config[sec][i].v))]]

(***************************************************************************)
(* get_opts, lines 693-702: the loop "for sec in secs[:0:-1]" visits the   *)
(* sections from the last one down to the second one and updates the       *)
(* first section's dict with each of them in that order.                   *)
(***************************************************************************)
RECURSIVE MergeFrom(_, _, _)
MergeFrom(options, secs, i) ==
    IF i < 2 THEN options
    ELSE LET upd == [options EXCEPT ![secs[1]] = DUpdate(@, options[secs[i]])]
         IN  MergeFrom([sec \in (DOMAIN upd) \ {secs[i]} |-> upd[sec]], secs, i - 1)

MergeSecs(options, secs) == MergeFrom(options, secs, Len(secs))

(* The section check without the test for shared sections. *)
SecsValid_no_overlap_test(sk, su) == NoDuplicates(sk) /\ NoDuplicates(su)

(* get_opts, lines 653-673. *)
SecsValid(sk, su) ==
    /\ NoDuplicates(sk)
    /\ NoDuplicates(su)
    /\ SeqToSet(sk) \cap SeqToSet(su) = {}

(* get_opts, lines 675-702. *)
MergedConfig(config, sk, su) ==
    MergeSecs(MergeSecs(configparser2dict(conv_configparser_opts(config, sk), sk \o su),
                        sk),
              su)

(* get_opts, lines 718-722 and the option list handed to the second parse. *)
RevalidationArgs(known) ==
    LET kept == SelectSeq(known, LAMBDA p : ~InNoneTrueFalseEmpty(p.v))
    IN  optdict2list([i \in 1..Len(kept) |->
                         Item(ReplaceChar(kept[i].k, "_", "-"), kept[i].v)],
                     {}, {})

(* get_opts, lines 733-742, secs_unknown is None. *)
ReturnedWithoutUnknownSecs(options, sk, known, unknown) ==
    [sec \in DOMAIN options \cup {"unknown"} |->
        IF sec = "unknown" THEN unknown
        ELSE IF sec = sk[1] THEN known ELSE options[sec]]

(* get_opts, lines 733-742, secs_unknown is not None. *)
ReturnedOptions(options, sk, su, known, unknown) ==
    [options EXCEPT ![sk[1]] = known, ![su[1]] = DUpdate(@, unknown)]


(***************************************************************************)
(* opthandler.configparser_check_options(config, known_options,            *)
(* sections=None, case_sensitive, hyphens_are_underscores).  config is a   *)
(* ConfigParser: its optionxform ("lower", the default of configparser, or *)
(* "str", as set by read_config) and the sections with their items.        *)
(***************************************************************************)
(* config.options(sec): the option names as the parser stores them. *)
config_options(config, sec) ==
    {IF config.optionxform = "lower" THEN Lower(config.secs[sec][i].k)
     ELSE config.secs[sec][i].k : i \in 1..Len(config.secs[sec])}

configparser_check_options(config, known_options, case_sensitive, hyphens_are_underscores) ==
    LET lowered == IF ~case_sensitive
                   THEN {Lower(opt) : opt \in SeqToSet(known_options)}
                   ELSE SeqToSet(known_options)
        known == IF hyphens_are_underscores
                 THEN {ReplaceChar(opt, "-", "_") : opt \in lowered}
                 ELSE lowered
        (* Lines 146-151: the names in lower case of line 147 are replaced *)
        (* by one of the two assignments that follow.                      *)
        options(sec) ==
            IF hyphens_are_underscores
            THEN {ReplaceChar(opt, "-", "_") : opt \in config_options(config, sec)}
            ELSE config_options(config, sec)
    IN  IF \E sec \in DOMAIN config.secs : ~(options(sec) \subseteq known)
        THEN "KeyError" ELSE ""

(***************************************************************************)
(* Numbers.  The floats of the bounded inputs have at most three decimals; *)
(* they are computed with as integers counting thousandths, exactly.       *)
(***************************************************************************)
Pow10(n) == CASE n = 0 -> 1 [] n = 1 -> 10 [] n = 2 -> 100 [] n = 3 -> 1000

RECURSIVE ZeroPad(_, _)
ZeroPad(s, width) == IF Len(s) >= width THEN s ELSE ZeroPad("0" \o s, width)

RECURSIVE ZeroFill(_, _)
ZeroFill(s, width) == IF Len(s) >= width THEN s ELSE ZeroFill(s \o "0", width)

(* The value of an int or float, in thousandths. *)
Milli(v) ==
    LET u == UnsignedPart(v.s)
        hasPoint == \E i \in 1..Len(u) : CharAt(u, i) = "."
        ip == IF hasPoint THEN SubSeq(u, 1, PointAt(u) - 1) ELSE u
        fp == IF hasPoint THEN SubSeq(ZeroFill(SubSeq(u, PointAt(u) + 1, Len(u)), 3), 1, 3)
              ELSE "000"
        a == 1000 * StrToNat(ip) + StrToNat(fp)
    IN  IF IsNegative(v.s) THEN 0 - a ELSE a

(* float("nan"): the float that compares False with every number. *)
IsNaN(v) == v.t = "float" /\ v.s = "nan"

(* bool(v), the truth value an if statement takes of v. *)
Truthy(v) ==
    CASE v.t = "none" -> FALSE
      [] v.t = "bool" -> v = PyTrue
      [] v.t = "str" -> v.s # ""
      [] IsNaN(v) -> TRUE
      [] OTHER -> Milli(v) # 0

(* The float with the given number of thousandths. *)
FloatOfMilli(m) ==
    LET a == IF m < 0 THEN 0 - m ELSE m
        fp == RStrip(ZeroPad(ToString(a % 1000), 3), "0")
    IN  PyFloat((IF m < 0 THEN "-" ELSE "") \o ToString(a \div 1000) \o "."
                \o (IF fp = "" THEN "0" ELSE fp))

(* "{:.{p}f}".format(x, p=prec) for the float of m thousandths. *)
FormatFloat(m, prec) ==
    LET a == IF m < 0 THEN 0 - m ELSE m
        scale == Pow10(3 - prec)
        q == (a + scale \div 2) \div scale
    IN  (IF m < 0 THEN "-" ELSE "") \o ToString(q \div Pow10(prec))
        \o (IF prec = 0 THEN "" ELSE "." \o ZeroPad(ToString(q % Pow10(prec)), prec))

(* The thousandths of a number that is compared or added; a NaN has none  *)
(* and every comparison with it is False.                                 *)
MilliOf(v) == IF IsNaN(v) THEN 0 ELSE Milli(v)

(* "{:.{p}f}".format(x, p=prec) for a float x. *)
FormatValue(x, prec) ==
    IF IsNaN(x) THEN "nan" ELSE FormatFloat(Milli(x), prec)

(* opthandler.posargs2str(posargs, prec), as the tokens of the string. *)
posargs2str(posargs, prec) ==
    [i \in 1..Len(posargs) |->
        IF posargs[i].t = "float" THEN FormatValue(posargs[i], prec)
        ELSE IF posargs[i].t = "bool" THEN (IF posargs[i] = PyTrue THEN "1" ELSE "0")
        ELSE posargs[i].s]

(* strng.extract_ints_from_str(s). *)
extract_ints_from_str(s) ==
    LET digits == SelectSeq(Split(s), IsDigitStr)
    IN  [i \in 1..Len(digits) |-> StrToNat(digits[i])]

(* gmx.get_box_from_gro(fname)[2]: the third number of the last line of    *)
(* the .gro file, in thousandths.                                          *)
GroLastLine == "3.00000 3.00000 3.00000"

BoxZ == Milli(PyFloat(FloatRepr(Split(GroLastLine)[3])))

(* gmx.get_nbins(fname, binwidth): round(box_z / binwidth). *)
get_nbins(binwidth) == PyInt((2 * BoxZ + Milli(binwidth)) \div (2 * Milli(binwidth)))

(* gmx.get_last_time_from_log(log_file): the time of the last frame. *)
LogLastTime == PyFloat("1000.0")

(***************************************************************************)
(* Python floats are IEEE 754 doubles.  A double is the record             *)
(* [neg, m, e] with the value (-1)^neg * m * 2^e, where m is a natural     *)
(* number of at most 53 bits, written as its sequence of bits, lowest      *)
(* first.  Sums and differences are computed exactly and then rounded to   *)
(* 53 bits, ties to even, as the hardware does.  The values of the bounded *)
(* inputs are far from overflow and from the subnormal numbers.            *)
(***************************************************************************)
MantissaBits == 53

Bit(x, i) == IF i <= Len(x) THEN x[i] ELSE 0

RECURSIVE BitsOfNat(_)
BitsOfNat(n) == IF n = 0 THEN <<>> ELSE <<n % 2>> \o BitsOfNat(n \div 2)

RECURSIVE NatOfBits(_)
NatOfBits(x) == IF x = <<>> THEN 0 ELSE x[1] + 2 * NatOfBits(Tail(x))

IsZeroBits(x) == \A i \in 1..Len(x) : x[i] = 0

(* The position of the highest bit that is set, 0 for zero. *)
BitLen(x) ==
    Cardinality({i \in 1..Len(x) : \E j \in i..Len(x) : x[j] = 1})

(* A function over 1..n as the tuple of its values. *)
Tuple(f) == f \o <<>>

ShiftLeft(x, k) ==
    Tuple([i \in 1..(Len(x) + k) |-> IF i <= k THEN 0 ELSE x[i - k]])

(* x + y.  The carry into bit i comes from the highest lower position      *)
(* where both summands have the same bit.                                  *)
AddBits(x, y) ==
    LET n == IF Len(x) > Len(y) THEN Len(x) ELSE Len(y)
        carry(i) ==
            IF \E j \in 1..(i - 1) :
                   /\ Bit(x, j) = 1 /\ Bit(y, j) = 1
                   /\ \A k \in (j + 1)..(i - 1) : Bit(x, k) # Bit(y, k)
            THEN 1 ELSE 0
    IN  Tuple([i \in 1..(n + 1) |-> (Bit(x, i) + Bit(y, i) + carry(i)) % 2])

(* x - y for x >= y.  The borrow from bit i comes from the highest lower   *)
(* position where the bits differ.                                         *)
SubBits(x, y) ==
    LET borrow(i) ==
            IF \E j \in 1..(i - 1) :
                   /\ Bit(x, j) = 0 /\ Bit(y, j) = 1
                   /\ \A k \in (j + 1)..(i - 1) : Bit(x, k) = Bit(y, k)
            THEN 1 ELSE 0
    IN  Tuple([i \in 1..Len(x) |->
                  (2 + Bit(x, i) - Bit(y, i) - borrow(i)) % 2])

LessBits(x, y) ==
    LET n == IF Len(x) > Len(y) THEN Len(x) ELSE Len(y)
        differ == {i \in 1..n : Bit(x, i) # Bit(y, i)}
    IN  \E i \in differ : Bit(y, i) = 1 /\ \A j \in differ : j <= i

(* Quotient q and remainder r of x by the small number d, in digits of     *)
(* LimbBits bits, from the highest digit k down.                           *)
LimbBits == 15

RECURSIVE DivLimbs(_, _, _, _)
DivLimbs(x, k, rem, d) ==
    IF k = 0 THEN [q |-> <<>>, r |-> rem]
    ELSE LET limb == NatOfBits(Tuple([i \in 1..LimbBits |->
                                         Bit(x, LimbBits * (k - 1) + i)]))
             digit(t) ==
                 Tuple([i \in 1..LimbBits |-> (t \div 2 ^ (i - 1)) % 2])
             put(rest, t) == [q |-> rest.q \o digit(t \div d), r |-> rest.r]
             step(t) == put(DivLimbs(x, k - 1, t % d, d), t)
         IN  step(rem * 2 ^ LimbBits + limb)

DivSmall(x, d) == DivLimbs(x, (Len(x) + LimbBits - 1) \div LimbBits, 0, d)

(* x * k for the small number k, in digits of LimbBits bits, from the      *)
(* lowest digit i up, with the carry of the digits below.                  *)
RECURSIVE MulLimbs(_, _, _, _)
MulLimbs(x, i, carry, k) ==
    IF LimbBits * (i - 1) >= Len(x) THEN BitsOfNat(carry)
    ELSE LET limb == NatOfBits(Tuple([j \in 1..LimbBits |->
                                         Bit(x, LimbBits * (i - 1) + j)]))
             digit(t) ==
                 Tuple([j \in 1..LimbBits |-> (t \div 2 ^ (j - 1)) % 2])
             step(t) == digit(t % 2 ^ LimbBits)
                            \o MulLimbs(x, i + 1, t \div 2 ^ LimbBits, k)
         IN  step(limb * k + carry)

MulSmall(x, k) == MulLimbs(x, 1, 0, k)

(* x without its lowest d bits, rounded to nearest, ties to even. *)
ShiftRightRounded(x, d) ==
    LET q == IF d >= Len(x) THEN <<>> ELSE SubSeq(x, d + 1, Len(x))
        up == /\ d >= 1
              /\ Bit(x, d) = 1
              /\ \/ \E i \in 1..(d - 1) : Bit(x, i) = 1
                 \/ Bit(q, 1) = 1
    IN  IF up THEN AddBits(q, <<1>>) ELSE q

(* The double nearest to x * 2^e. *)
RoundBits(neg, x, e) ==
    LET round(len) ==
            IF len <= MantissaBits THEN [neg |-> neg, m |-> x, e |-> e]
            ELSE [neg |-> neg,
                  m |-> ShiftRightRounded(x, len - MantissaBits),
                  e |-> e + len - MantissaBits]
    IN  round(BitLen(x))

(* float(s) for the decimal s of m thousandths: the double nearest to      *)
(* m / 1000.  The lowest bit of the dividend's quotient records a          *)
(* remainder that is not zero.                                             *)
float(m) ==
    LET a == IF m < 0 THEN 0 - m ELSE m
        scaled == ShiftLeft(BitsOfNat(a), 70)
        sticky(d) == <<IF d.r = 0 THEN 0 ELSE 1>> \o d.q
    IN  RoundBits(m < 0, sticky(DivSmall(scaled, 1000)), 0 - 71)

(* a + b *)
FloatAdd(a, b) ==
    LET e == IF a.e < b.e THEN a.e ELSE b.e
        sum(x, y) ==
            IF a.neg = b.neg THEN RoundBits(a.neg, AddBits(x, y), e)
            ELSE IF LessBits(x, y) THEN RoundBits(b.neg, SubBits(y, x), e)
            ELSE IF LessBits(y, x) THEN RoundBits(a.neg, SubBits(x, y), e)
            ELSE RoundBits(FALSE, <<>>, 0)
    IN  sum(ShiftLeft(a.m, a.e - e), ShiftLeft(b.m, b.e - e))

(* a - b *)
FloatSub(a, b) == FloatAdd(a, [neg |-> ~b.neg, m |-> b.m, e |-> b.e])

(* a < b *)
FloatLess(a, b) ==
    LET e == IF a.e < b.e THEN a.e ELSE b.e
        less(x, y) ==
            IF a.neg /\ ~b.neg THEN ~(IsZeroBits(x) /\ IsZeroBits(y))
            ELSE IF ~a.neg /\ b.neg THEN FALSE
            ELSE IF a.neg THEN LessBits(y, x)
            ELSE LessBits(x, y)
    IN  less(ShiftLeft(a.m, a.e - e), ShiftLeft(b.m, b.e - e))

(* The number of thousandths nearest to the double a, the digits that      *)
(* "{:.3f}".format(a) prints.                                              *)
MilliOfFloat(a) ==
    LET scaled == MulSmall(a.m, 1000)
        n == NatOfBits(IF a.e >= 0 THEN ShiftLeft(scaled, a.e)
                       ELSE ShiftRightRounded(scaled, 0 - a.e))
    IN  IF a.neg THEN 0 - n ELSE n

(***************************************************************************)
(* Tables of the analysis submit scripts: which job script needs which     *)
(* input file.  GMX_ marks the Gromacs family, MDT_ the MDTools family.     *)
(***************************************************************************)

GMX_REQUIRE_EDR ==
    {"energy"}

GMX_REQUIRE_NDX ==
    {"density-z_charge", "density-z_mass", "density-z_number",
     "densmap-z_gra", "densmap-z_NBT", "densmap-z_OBT", "densmap-z_OE", "msd",
     "msd_electrodes", "msd_lateral-z", "msd_parallel-z", "msd_tensor",
     "polystat", "potential-z"}

GMX_REQUIRE_TRR ==
    {"densmap-z_gra", "densmap-z_Li", "densmap-z_NBT", "densmap-z_OBT",
     "densmap-z_OE", "trjconv_whole"}

GMX_REQUIRE_XTC_WRAPPED ==
    {"density-z_charge", "density-z_mass", "density-z_number", "polystat",
     "potential-z", "rdf_ether-com", "rdf_Li", "rdf_Li-com", "rdf_NBT",
     "rdf_NTf2-com", "rdf_OE", "rdf_slab-z_Li", "rdf_slab-z_NBT",
     "rdf_slab-z_OE", "trjconv_nojump"}

GMX_REQUIRE_XTC_UNWRAPPED ==
    {"msd", "msd_electrodes", "msd_lateral-z", "msd_parallel-z", "msd_tensor"}

MDT_REQUIRE_TPR ==
    {"axial_hex_dist_1nn_Li", "axial_hex_dist_1nn_NBT",
     "axial_hex_dist_1nn_OBT", "axial_hex_dist_1nn_OE",
     "axial_hex_dist_2nn_Li", "axial_hex_dist_2nn_NBT",
     "axial_hex_dist_2nn_OBT", "axial_hex_dist_2nn_OE", "contact_hist_Li-O",
     "contact_hist_Li-OBT", "contact_hist_Li-OE", "contact_hist_O-Li",
     "contact_hist_OBT-Li", "contact_hist_OE-Li",
     "contact_hist_at_pos_change_Li-OBT", "contact_hist_at_pos_change_Li-OE",
     "contact_hist_slab-z_Li-OBT", "contact_hist_slab-z_Li-OE",
     "create_mda_universe", "discrete-hex_Li", "discrete-hex_NBT",
     "discrete-hex_OBT", "discrete-hex_OE", "discrete-z_Li",
     "lifetime_autocorr_Li-ether", "lifetime_autocorr_Li-NTf2",
     "lifetime_autocorr_Li-OBT", "lifetime_autocorr_Li-OE",
     "lig_change_at_pos_change_Li-OBT", "lig_change_at_pos_change_Li-OE",
     "lig_change_at_pos_change_blocks_Li-OBT",
     "lig_change_at_pos_change_blocks_Li-OE",
     "lig_change_at_pos_change_blocks_hist_Li-OBT",
     "lig_change_at_pos_change_blocks_hist_Li-OE", "msd_ether", "msd_Li",
     "msd_NBT", "msd_NTf2", "msd_OBT", "msd_OE", "msd_layer_ether",
     "msd_layer_Li", "msd_layer_NBT", "msd_layer_NTf2", "msd_layer_OBT",
     "msd_layer_OE", "msd_at_coord_change_Li-ether",
     "msd_at_coord_change_Li-NTf2", "renewal_events_Li-ether",
     "renewal_events_Li-NTf2", "subvolume_charge", "topo_map_Li-OBT",
     "topo_map_Li-OE"}

MDT_REQUIRE_EDR ==
    {"energy_dist"}

MDT_REQUIRE_TRR ==
    {"attribute_hist_ether.py", "attribute_hist_Li.py",
     "attribute_hist_NBT.py", "attribute_hist_NTf2.py",
     "attribute_hist_OBT.py", "attribute_hist_OE.py"}

MDT_REQUIRE_XTC_WRAPPED ==
    {"axial_hex_dist_1nn_Li", "axial_hex_dist_1nn_NBT",
     "axial_hex_dist_1nn_OBT", "axial_hex_dist_1nn_OE",
     "axial_hex_dist_2nn_Li", "axial_hex_dist_2nn_NBT",
     "axial_hex_dist_2nn_OBT", "axial_hex_dist_2nn_OE", "contact_hist_Li-O",
     "contact_hist_Li-OBT", "contact_hist_Li-OE", "contact_hist_O-Li",
     "contact_hist_OBT-Li", "contact_hist_OE-Li",
     "contact_hist_at_pos_change_Li-OBT", "contact_hist_at_pos_change_Li-OE",
     "contact_hist_slab-z_Li-OBT", "contact_hist_slab-z_Li-OE",
     "create_mda_universe", "discrete-hex_Li", "discrete-hex_NBT",
     "discrete-hex_OBT", "discrete-hex_OE", "discrete-z_Li",
     "lifetime_autocorr_Li-ether", "lifetime_autocorr_Li-NTf2",
     "lifetime_autocorr_Li-OBT", "lifetime_autocorr_Li-OE",
     "lig_change_at_pos_change_Li-OBT", "lig_change_at_pos_change_Li-OE",
     "lig_change_at_pos_change_blocks_Li-OBT",
     "lig_change_at_pos_change_blocks_Li-OE",
     "lig_change_at_pos_change_blocks_hist_Li-OBT",
     "lig_change_at_pos_change_blocks_hist_Li-OE", "subvolume_charge",
     "topo_map_Li-OBT", "topo_map_Li-OE"}

MDT_REQUIRE_XTC_UNWRAPPED ==
    {"create_mda_universe", "msd_ether", "msd_Li", "msd_NBT", "msd_NTf2",
     "msd_OBT", "msd_OE", "msd_layer_ether", "msd_layer_Li", "msd_layer_NBT",
     "msd_layer_NTf2", "msd_layer_OBT", "msd_layer_OE",
     "msd_at_coord_change_Li-ether", "msd_at_coord_change_Li-NTf2",
     "renewal_events_Li-ether", "renewal_events_Li-NTf2"}

MDT_REQUIRE_DTRJ_DISCRETE_Z ==
    {"discrete-z_Li_back_jump_prob_discrete",
     "discrete-z_Li_kaplan_meier_discrete",
     "discrete-z_Li_state_lifetime_discrete",
     "renewal_events_Li-ether_back_jump_prob_discrete",
     "renewal_events_Li-ether_kaplan_meier_discrete",
     "renewal_events_Li-ether_state_lifetime_discrete",
     "renewal_events_Li-NTf2_back_jump_prob_discrete",
     "renewal_events_Li-NTf2_kaplan_meier_discrete",
     "renewal_events_Li-NTf2_state_lifetime_discrete"}

MDT_REQUIRE_DTRJ_RENEWAL_ETHER ==
    {"renewal_events_Li-ether_back_jump_prob",
     "renewal_events_Li-ether_back_jump_prob_discrete",
     "renewal_events_Li-ether_kaplan_meier",
     "renewal_events_Li-ether_kaplan_meier_discrete",
     "renewal_events_Li-ether_state_lifetime",
     "renewal_events_Li-ether_state_lifetime_discrete"}

MDT_REQUIRE_DTRJ_RENEWAL_TFSI ==
    {"renewal_events_Li-NTf2_back_jump_prob",
     "renewal_events_Li-NTf2_back_jump_prob_discrete",
     "renewal_events_Li-NTf2_kaplan_meier",
     "renewal_events_Li-NTf2_kaplan_meier_discrete",
     "renewal_events_Li-NTf2_state_lifetime",
     "renewal_events_Li-NTf2_state_lifetime_discrete"}

MDT_REQUIRE_BIN_FILE ==
    {"contact_hist_at_pos_change_Li-OBT", "contact_hist_at_pos_change_Li-OE",
     "discrete-z_Li", "lig_change_at_pos_change_Li-OBT",
     "lig_change_at_pos_change_Li-OE",
     "lig_change_at_pos_change_blocks_Li-OBT",
     "lig_change_at_pos_change_blocks_Li-OE",
     "lig_change_at_pos_change_blocks_hist_Li-OBT",
     "lig_change_at_pos_change_blocks_hist_Li-OE", "msd_layer_ether",
     "msd_layer_Li", "msd_layer_NBT", "msd_layer_NTf2", "msd_layer_OBT",
     "msd_layer_OE"}

(* The job scripts, in the order of the keys of the dict posargs. *)
GMX_SCRIPTS ==
    <<"density-z_charge", "density-z_mass", "density-z_number",
      "densmap-z_gra", "densmap-z_Li", "densmap-z_NBT", "densmap-z_OBT",
      "densmap-z_OE", "energy", "make_ndx", "msd", "msd_electrodes",
      "msd_lateral-z", "msd_parallel-z", "msd_tensor", "polystat",
      "potential-z", "rdf_ether-com", "rdf_Li", "rdf_Li-com", "rdf_NBT",
      "rdf_NTf2-com", "rdf_OE", "rdf_slab-z_Li", "rdf_slab-z_NBT",
      "rdf_slab-z_OE", "trjconv_nojump", "trjconv_whole">>

(* The job scripts, in the order of the keys of the dict posargs. *)
MDT_SCRIPTS ==
    <<"attribute_hist_ether", "attribute_hist_Li", "attribute_hist_NBT",
      "attribute_hist_NTf2", "attribute_hist_OBT", "attribute_hist_OE",
      "axial_hex_dist_1nn_Li", "axial_hex_dist_1nn_NBT",
      "axial_hex_dist_1nn_OBT", "axial_hex_dist_1nn_OE",
      "axial_hex_dist_2nn_Li", "axial_hex_dist_2nn_NBT",
      "axial_hex_dist_2nn_OBT", "axial_hex_dist_2nn_OE", "contact_hist_Li-O",
      "contact_hist_Li-OBT", "contact_hist_Li-OE", "contact_hist_O-Li",
      "contact_hist_OBT-Li", "contact_hist_OE-Li",
      "contact_hist_at_pos_change_Li-OBT", "contact_hist_at_pos_change_Li-OE",
      "contact_hist_slab-z_Li-OBT", "contact_hist_slab-z_Li-OE",
      "create_mda_universe", "discrete-hex_Li", "discrete-hex_NBT",
      "discrete-hex_OBT", "discrete-hex_OE", "discrete-z_Li",
      "discrete-z_Li_back_jump_prob_discrete",
      "discrete-z_Li_kaplan_meier_discrete",
      "discrete-z_Li_state_lifetime_discrete", "energy_dist",
      "lifetime_autocorr_Li-ether", "lifetime_autocorr_Li-NTf2",
      "lifetime_autocorr_Li-OBT", "lifetime_autocorr_Li-OE",
      "lig_change_at_pos_change_Li-OBT", "lig_change_at_pos_change_Li-OE",
      "lig_change_at_pos_change_blocks_Li-OBT",
      "lig_change_at_pos_change_blocks_Li-OE",
      "lig_change_at_pos_change_blocks_hist_Li-OBT",
      "lig_change_at_pos_change_blocks_hist_Li-OE", "msd_ether", "msd_Li",
      "msd_NBT", "msd_NTf2", "msd_OBT", "msd_OE", "msd_layer_ether",
      "msd_layer_Li", "msd_layer_NBT", "msd_layer_NTf2", "msd_layer_OBT",
      "msd_layer_OE", "msd_at_coord_change_Li-ether",
      "msd_at_coord_change_Li-NTf2", "renewal_events_Li-ether",
      "renewal_events_Li-ether_back_jump_prob",
      "renewal_events_Li-ether_back_jump_prob_discrete",
      "renewal_events_Li-ether_kaplan_meier",
      "renewal_events_Li-ether_kaplan_meier_discrete",
      "renewal_events_Li-ether_state_lifetime",
      "renewal_events_Li-ether_state_lifetime_discrete",
      "renewal_events_Li-NTf2", "renewal_events_Li-NTf2_back_jump_prob",
      "renewal_events_Li-NTf2_back_jump_prob_discrete",
      "renewal_events_Li-NTf2_kaplan_meier",
      "renewal_events_Li-NTf2_kaplan_meier_discrete",
      "renewal_events_Li-NTf2_state_lifetime",
      "renewal_events_Li-NTf2_state_lifetime_discrete", "subvolume_charge",
      "topo_map_Li-OBT", "topo_map_Li-OE">>

(* Directories the scripts derive from their own location. *)
BASH_DIR == "/hpcss/bash"

LmodFile(name) == "/hpcss/lmod/" \o name

(* The dict posargs of the Gromacs script before posargs2str, lines 756-813. *)
GMX_POSARGS(a, nbins) ==
    LET posargs_general == <<PyStr(BASH_DIR), PyStr(LmodFile(DGet(a, "gmx_lmod").s)), DGet(a, "gmx_exe"),
                            DGet(a, "system"), DGet(a, "settings")>>
        posargs_trj == <<DGet(a, "begin"), DGet(a, "end"), DGet(a, "every")>>
        posargs_msd == <<DGet(a, "beginfit"), DGet(a, "endfit"), DGet(a, "restart")>>
        posargs_dist == <<DGet(a, "binwidth")>>
        posargs_slab == <<DGet(a, "zmin"), DGet(a, "zmax")>>
    IN  [script \in SeqToSet(GMX_SCRIPTS) |->
           CASE script \in {"density-z_charge", "density-z_mass",
                          "density-z_number", "potential-z"}
                -> posargs_general \o posargs_trj \o <<nbins>>
           [] script \in {"densmap-z_gra", "densmap-z_Li", "densmap-z_NBT",
                          "densmap-z_OBT", "densmap-z_OE", "rdf_slab-z_Li",
                          "rdf_slab-z_NBT", "rdf_slab-z_OE"}
                -> posargs_general \o posargs_trj \o posargs_dist \o posargs_slab
           [] script \in {"energy"}
                -> posargs_general \o SubSeq(posargs_trj, 1, 2)
           [] script \in {"make_ndx"}
                -> posargs_general
           [] script \in {"msd", "msd_electrodes", "msd_lateral-z",
                          "msd_parallel-z", "msd_tensor"}
                -> posargs_general \o SubSeq(posargs_trj, 1, 2) \o posargs_msd
           [] script \in {"polystat", "trjconv_nojump", "trjconv_whole"}
                -> posargs_general \o posargs_trj
           [] script \in {"rdf_ether-com", "rdf_Li", "rdf_Li-com", "rdf_NBT",
                          "rdf_NTf2-com", "rdf_OE"}
                -> posargs_general \o posargs_trj \o posargs_dist]

(* The dict posargs inside _submit_discretized of the Gromacs script. *)
GMX_POSARGS_DISCRETIZED(a) ==
    LET posargs_general == <<PyStr(BASH_DIR), PyStr(LmodFile(DGet(a, "gmx_lmod").s)), DGet(a, "gmx_exe"),
                            DGet(a, "system"), DGet(a, "settings")>>
        posargs_trj == <<DGet(a, "begin"), DGet(a, "end"), DGet(a, "every")>>
        posargs_dist == <<DGet(a, "binwidth")>>
    IN  [script \in {"densmap-z_gra", "densmap-z_Li", "densmap-z_NBT",
                        "densmap-z_OBT", "densmap-z_OE", "rdf_slab-z_Li",
                        "rdf_slab-z_NBT", "rdf_slab-z_OE"} |->
           CASE script \in {"densmap-z_gra", "densmap-z_Li", "densmap-z_NBT",
                          "densmap-z_OBT", "densmap-z_OE", "rdf_slab-z_Li",
                          "rdf_slab-z_NBT", "rdf_slab-z_OE"}
                -> posargs_general \o posargs_trj \o posargs_dist]

(* The dict posargs of the MDTools script before posargs2str. *)
MDT_POSARGS(a) ==
    LET posargs_general == <<PyStr(BASH_DIR), PyStr(LmodFile(DGet(a, "py_lmod").s)), DGet(a, "py_exe"),
                            PyStr(DGet(a, "mdt_path").s), DGet(a, "system"), DGet(a, "settings")>>
        posargs_trj == <<DGet(a, "begin"), DGet(a, "end"), DGet(a, "every"),
                        DGet(a, "nblocks"), DGet(a, "restart")>>
        posargs_dist == <<DGet(a, "binwidth")>>
        posargs_contact == <<DGet(a, "cutoff")>>
        posargs_discrete == <<DGet(a, "intermittency"), DGet(a, "lag_compare"),
                             DGet(a, "min_block_size"), DGet(a, "max_gap_size")>>
        posargs_atom == <<DGet(a, "atom_index")>>
        posargs_slab == <<DGet(a, "zmin"), DGet(a, "zmax")>>
    IN  [script \in SeqToSet(MDT_SCRIPTS) |->
           CASE script \in {"attribute_hist_ether", "attribute_hist_Li",
                          "attribute_hist_NBT", "attribute_hist_NTf2",
                          "attribute_hist_OBT", "attribute_hist_OE",
                          "discrete-z_Li", "energy_dist"}
                -> posargs_general \o SubSeq(posargs_trj, 1, 3)
           [] script \in {"axial_hex_dist_1nn_Li", "axial_hex_dist_1nn_NBT",
                          "axial_hex_dist_1nn_OBT", "axial_hex_dist_1nn_OE",
                          "axial_hex_dist_2nn_Li", "axial_hex_dist_2nn_NBT",
                          "axial_hex_dist_2nn_OBT", "axial_hex_dist_2nn_OE"}
                -> posargs_general \o SubSeq(posargs_trj, 1, 3) \o posargs_slab
           [] script \in {"contact_hist_Li-O", "contact_hist_Li-OBT",
                          "contact_hist_Li-OE", "contact_hist_O-Li",
                          "contact_hist_OBT-Li", "contact_hist_OE-Li",
                          "contact_hist_at_pos_change_Li-OBT",
                          "contact_hist_at_pos_change_Li-OE"}
                -> posargs_general \o SubSeq(posargs_trj, 1, 3) \o posargs_contact
           [] script \in {"contact_hist_slab-z_Li-OBT",
                          "contact_hist_slab-z_Li-OE"}
                -> posargs_general \o SubSeq(posargs_trj, 1, 3) \o posargs_contact \o posargs_slab
           [] script \in {"create_mda_universe"}
                -> SubSeq(posargs_general, 1, 3) \o SubSeq(posargs_general, 5, Len(posargs_general))
           [] script \in {"discrete-hex_Li", "discrete-hex_NBT",
                          "discrete-hex_OBT", "discrete-hex_OE"}
                -> posargs_general \o posargs_trj \o posargs_slab
           [] script \in {"discrete-z_Li_back_jump_prob_discrete",
                          "discrete-z_Li_kaplan_meier_discrete",
                          "renewal_events_Li-ether_back_jump_prob",
                          "renewal_events_Li-ether_back_jump_prob_discrete",
                          "renewal_events_Li-ether_kaplan_meier",
                          "renewal_events_Li-ether_kaplan_meier_discrete",
                          "renewal_events_Li-NTf2_back_jump_prob",
                          "renewal_events_Li-NTf2_back_jump_prob_discrete",
                          "renewal_events_Li-NTf2_kaplan_meier",
                          "renewal_events_Li-NTf2_kaplan_meier_discrete"}
                -> posargs_general
           [] script \in {"discrete-z_Li_state_lifetime_discrete",
                          "renewal_events_Li-ether_state_lifetime_discrete",
                          "renewal_events_Li-NTf2_state_lifetime_discrete"}
                -> posargs_general \o <<posargs_trj[5]>>
           [] script \in {"lifetime_autocorr_Li-ether",
                          "lifetime_autocorr_Li-NTf2",
                          "lifetime_autocorr_Li-OBT",
                          "lifetime_autocorr_Li-OE"}
                -> posargs_general \o posargs_trj \o posargs_contact \o <<posargs_discrete[1]>>
           [] script \in {"lig_change_at_pos_change_Li-OBT",
                          "lig_change_at_pos_change_Li-OE"}
                -> posargs_general \o SubSeq(posargs_trj, 1, 3) \o posargs_contact \o <<posargs_discrete[2]>>
           [] script \in {"lig_change_at_pos_change_blocks_Li-OBT",
                          "lig_change_at_pos_change_blocks_Li-OE",
                          "lig_change_at_pos_change_blocks_hist_Li-OBT",
                          "lig_change_at_pos_change_blocks_hist_Li-OE"}
                -> posargs_general \o SubSeq(posargs_trj, 1, 3) \o posargs_contact \o SubSeq(posargs_discrete, 2, Len(posargs_discrete))
           [] script \in {"msd_ether", "msd_Li", "msd_NBT", "msd_NTf2",
                          "msd_OBT", "msd_OE", "msd_layer_ether",
                          "msd_layer_Li", "msd_layer_NBT", "msd_layer_NTf2",
                          "msd_layer_OBT", "msd_layer_OE"}
                -> posargs_general \o posargs_trj
           [] script \in {"msd_at_coord_change_Li-ether",
                          "msd_at_coord_change_Li-NTf2",
                          "renewal_events_Li-ether", "renewal_events_Li-NTf2"}
                -> posargs_general \o SubSeq(posargs_trj, 1, 3) \o posargs_contact \o <<posargs_discrete[1]>>
           [] script \in {"renewal_events_Li-ether_state_lifetime",
                          "renewal_events_Li-NTf2_state_lifetime"}
                -> posargs_general \o SubSeq(posargs_trj, 4, Len(posargs_trj))
           [] script \in {"subvolume_charge"}
                -> posargs_general \o SubSeq(posargs_trj, 1, 3) \o posargs_dist
           [] script \in {"topo_map_Li-OBT", "topo_map_Li-OE"}
                -> posargs_general \o SubSeq(posargs_trj, 1, 3) \o posargs_contact \o posargs_atom]

(* The dict posargs inside _submit_discretized of the MDTools script. *)
MDT_POSARGS_DISCRETIZED(a) ==
    LET posargs_general == <<PyStr(BASH_DIR), PyStr(LmodFile(DGet(a, "py_lmod").s)), DGet(a, "py_exe"),
                            PyStr(DGet(a, "mdt_path").s), DGet(a, "system"), DGet(a, "settings")>>
        posargs_trj == <<DGet(a, "begin"), DGet(a, "end"), DGet(a, "every"),
                        DGet(a, "nblocks"), DGet(a, "restart")>>
        posargs_contact == <<DGet(a, "cutoff")>>
    IN  [script \in {"axial_hex_dist_1nn_Li", "axial_hex_dist_1nn_NBT",
                        "axial_hex_dist_1nn_OBT", "axial_hex_dist_1nn_OE",
                        "axial_hex_dist_2nn_Li", "axial_hex_dist_2nn_NBT",
                        "axial_hex_dist_2nn_OBT", "axial_hex_dist_2nn_OE",
                        "contact_hist_slab-z_Li-OBT",
                        "contact_hist_slab-z_Li-OE", "discrete-hex_Li",
                        "discrete-hex_NBT", "discrete-hex_OBT",
                        "discrete-hex_OE"} |->
           CASE script \in {"axial_hex_dist_1nn_Li", "axial_hex_dist_1nn_NBT",
                          "axial_hex_dist_1nn_OBT", "axial_hex_dist_1nn_OE",
                          "axial_hex_dist_2nn_Li", "axial_hex_dist_2nn_NBT",
                          "axial_hex_dist_2nn_OBT", "axial_hex_dist_2nn_OE"}
                -> posargs_general \o SubSeq(posargs_trj, 1, 3)
           [] script \in {"contact_hist_slab-z_Li-OBT",
                          "contact_hist_slab-z_Li-OE"}
                -> posargs_general \o SubSeq(posargs_trj, 1, 3) \o posargs_contact
           [] script \in {"discrete-hex_Li", "discrete-hex_NBT",
                          "discrete-hex_OBT", "discrete-hex_OE"}
                -> posargs_general \o posargs_trj]

(***************************************************************************)
(* State of a call of opthandler.get_opts, and of the analysis submit      *)
(* script that makes the call.                                             *)
(***************************************************************************)
VARIABLES
    secs_known,       \* argument secs_known, as a tuple
    secs_unknown,     \* argument secs_unknown, as a tuple
    unknown_is_none,  \* TRUE if the argument secs_unknown is None
    ignore_unknown_opts,  \* argument ignore_unknown_opts
    config,           \* content of the config file
    argv,             \* sys.argv[1:]
    go_pc,            \* position in get_opts
    go_err,           \* exception that ended get_opts, "" if none
    options,          \* local variable options
    parser_defaults,  \* defaults held by argparser
    args_known,       \* local variable args_known
    args_unknown,     \* local variable args_unknown
    family,           \* the submit script run: "gmx" or "mdt"
    missing,          \* names of the input files that do not exist
    pc,               \* position in the submit script
    err,              \* exception that ended the script, "" if none
    errmsg,           \* the file the exception's message names
    args,             \* script variable args
    args_sbatch,      \* script variable args_sbatch
    bin_edges,        \* script variable bin_edges, in thousandths
    nbins,            \* script variable nbins
    todo,             \* submissions the script still has to make
    job_ids,          \* the job_id variables assigned so far
    calls,            \* the sbatch calls made so far
    n_scripts_submitted,  \* script variable n_scripts_submitted
    sbatch,           \* submit_gmx_mdrun.py: the string sbatch
    warned,           \* categories of the warnings issued so far
    called,           \* a direct call of a function of opthandler: [fn, arg]
    returned,         \* what the call returned: <<>> before it returns
    locals            \* local variables of the call: <<>> outside of a loop

(* The arguments of the call of get_opts. *)
callVars == <<secs_known, secs_unknown, unknown_is_none, ignore_unknown_opts>>

optsVars == <<callVars, config, argv, go_pc, go_err, options,
              parser_defaults, args_known, args_unknown>>

scriptVars == <<family, missing, pc, err, errmsg, args, args_sbatch, bin_edges,
                nbins, todo, job_ids, calls, n_scripts_submitted, sbatch,
                warned>>

pureVars == <<called, returned, locals>>

vars == <<optsVars, scriptVars, pureVars>>

(* No function of opthandler is called directly. *)
NoCall == called = [fn |-> "", arg |-> ""] /\ returned = <<>> /\ locals = <<>>

(* The parser the running script has built. *)
Parser == IF family = "mdt" THEN MdtParser ELSE GmxParser

(* No submit script is running: get_opts is called on its own. *)
NoScript ==
    /\ family = "gmx"
    /\ missing = {}
    /\ pc = "idle"
    /\ err = ""
    /\ errmsg = ""
    /\ args = <<>>
    /\ args_sbatch = <<>>
    /\ bin_edges = <<>>
    /\ nbins = PyNone
    /\ todo = <<>>
    /\ job_ids = <<>>
    /\ calls = <<>>
    /\ n_scripts_submitted = 0
    /\ sbatch = ""
    /\ warned = <<>>

KnownNames == {"submit", "submit.analysis", "submit.analysis.lintf2_ether"}
UnknownNames == {"sbatch", "sbatch.analysis"}

(* Each section of the bounded config files sets its own value. *)
SecNo(sec) ==
    CASE sec = "submit" -> "2"
      [] sec = "submit.analysis" -> "3"
      [] sec = "submit.analysis.lintf2_ether" -> "4"
      [] sec = "sbatch" -> "2"
      [] sec = "sbatch.analysis" -> "3"

KnownItems(sec) ==
    <<Item("zmin", SecNo(sec))>>
    \o (IF sec = "submit" THEN <<Item("gmx-exe", "gmx_mpi")>> ELSE <<>>)

UnknownItems(sec, clash) ==
    <<Item("dependency", "afterok:" \o SecNo(sec))>>
    \o (IF clash THEN <<Item("zmin", "9")>> ELSE <<>>)

ConfigOf(K, U, clash) ==
    [sec \in K \cup U |->
        IF sec \in K THEN KnownItems(sec) ELSE UnknownItems(sec, clash)]

(* A config file whose values pass the first parse and fail the second. *)
ConfigBad ==
    [sec \in {"submit"} |-> <<Item("discretize", "yes"), Item("center-slab", "yes")>>]

Configs ==
    {ConfigOf(K, UnknownNames, FALSE) : K \in SUBSET KnownNames}
    \cup {ConfigOf(K, {"sbatch"}, TRUE) : K \in {{}, {"submit"}}}
    \cup {ConfigOf({}, {}, FALSE), ConfigBad}

BaseArgv == <<"--system", "sys", "--settings", "set", "--scripts", "3">>

Argvs ==
    {BaseArgv,
     BaseArgv \o <<"--zmin", "7">>,
     BaseArgv \o <<"--zmin=7", "--dependency", "afterok:5">>,
     BaseArgv \o <<"--discretize", "--center-slab">>}

InitOpts ==
    /\ secs_known \in SeqsUpTo(KnownNames, MaxSecs)
    /\ secs_unknown \in SeqsUpTo(UnknownNames, MaxUSecs) \cup {<<"submit">>}
    /\ unknown_is_none = FALSE
    /\ ignore_unknown_opts = TRUE
    /\ config \in Configs
    /\ argv \in Argvs
    /\ go_pc = "start"
    /\ go_err = ""
    /\ options = <<>>
    /\ parser_defaults = DeclaredDefaults(GmxParser)
    /\ args_known = <<>>
    /\ args_unknown = <<>>
    /\ NoScript
    /\ NoCall

(* Lines 651-673: the section lists are checked right after the config    *)
(* file is read.                                                          *)
GetOptsCheckSections ==
    /\ go_pc = "start"
    /\ IF SecsValid(secs_known, secs_unknown)
       THEN go_pc' = "checked" /\ go_err' = go_err
       ELSE go_pc' = "error" /\ go_err' = "ValueError"
    /\ UNCHANGED <<callVars, config, argv, options,
                   parser_defaults, args_known, args_unknown>>
    /\ UNCHANGED <<scriptVars, pureVars>>

(* Lines 675-702.  With secs_unknown=None the sum secs_known +            *)
(* secs_unknown of line 688 raises TypeError.                             *)
GetOptsMergeConfig ==
    /\ go_pc = "checked"
    /\ IF unknown_is_none
       THEN go_pc' = "error" /\ go_err' = "TypeError" /\ options' = options
       ELSE /\ options' = MergedConfig(config, secs_known, secs_unknown)
            /\ go_pc' = "merged"
            /\ go_err' = go_err
    /\ UNCHANGED <<callVars, config, argv,
                   parser_defaults, args_known, args_unknown>>
    /\ UNCHANGED <<scriptVars, pureVars>>

(* Line 709. *)
GetOptsSetDefaults ==
    /\ go_pc = "merged"
    /\ parser_defaults' = set_defaults(parser_defaults, options[secs_known[1]])
    /\ go_pc' = "defaults"
    /\ UNCHANGED <<callVars, config, argv, go_err, options,
                   args_known, args_unknown>>
    /\ UNCHANGED <<scriptVars, pureVars>>

(* Lines 712-714. *)
GetOptsParse ==
    /\ go_pc = "defaults"
    /\ LET r == parse_known_args(Parser, parser_defaults, argv)
       IN  IF r.err = ""
           THEN /\ args_known' = r.ns
                /\ args_unknown' = optlist2dict(r.extras)
                /\ go_pc' = "parsed"
                /\ go_err' = go_err
           ELSE /\ go_pc' = "error"
                /\ go_err' = "SystemExit"
                /\ UNCHANGED <<args_known, args_unknown>>
    /\ UNCHANGED <<callVars, config, argv, options, parser_defaults>>
    /\ UNCHANGED <<scriptVars, pureVars>>

(* Lines 716-731: parse_known_args if ignore_unknown_opts, else           *)
(* parse_args, which exits on unrecognised arguments.                     *)
GetOptsRevalidate ==
    /\ go_pc = "parsed"
    /\ \E r \in {parse_known_args(Parser, parser_defaults,
                                   RevalidationArgs(args_known))} :
           IF r.err = "" /\ (ignore_unknown_opts \/ r.extras = <<>>)
           THEN go_pc' = "validated" /\ go_err' = go_err
           ELSE go_pc' = "error" /\ go_err' = "SystemExit"
    /\ UNCHANGED <<callVars, config, argv, options,
                   parser_defaults, args_known, args_unknown>>
    /\ UNCHANGED <<scriptVars, pureVars>>

(* Lines 733-742. *)
GetOptsReturn ==
    /\ go_pc = "validated"
    /\ options' = IF unknown_is_none
                   THEN ReturnedWithoutUnknownSecs(options, secs_known,
                                                   args_known, args_unknown)
                   ELSE ReturnedOptions(options, secs_known, secs_unknown,
                                        args_known, args_unknown)
    /\ go_pc' = "done"
    /\ UNCHANGED <<callVars, config, argv, go_err,
                   parser_defaults, args_known, args_unknown>>
    /\ UNCHANGED <<scriptVars, pureVars>>

NextOpts ==
    \/ GetOptsCheckSections
    \/ GetOptsMergeConfig
    \/ GetOptsSetDefaults
    \/ GetOptsParse
    \/ GetOptsRevalidate
    \/ GetOptsReturn

SpecOpts == InitOpts /\ [][NextOpts]_vars

(***************************************************************************)
(* Calls of get_opts with the keyword arguments secs_unknown=None and      *)
(* ignore_unknown_opts, on config files whose known section sets zmax      *)
(* and, in all but one of them, an option the parser does not declare.     *)
(***************************************************************************)
InitOptsKw ==
    LET typoNames == {"zmni", "zmi"}
        typoValues == {"5", "abc", "true", "False", "none", "0", "1", ""}
        configTypo(typo) ==
            [sec \in {"submit", "sbatch"} |->
                IF sec = "sbatch" THEN <<Item("dependency", "afterok:2")>>
                ELSE <<Item("zmax", "2")>> \o typo]
    IN  /\ secs_known \in {<<"submit">>, <<"submit", "submit.analysis">>}
        /\ unknown_is_none \in BOOLEAN
        /\ secs_unknown = IF unknown_is_none THEN <<>> ELSE <<"sbatch">>
        /\ ignore_unknown_opts \in BOOLEAN
        /\ config \in {configTypo(<<Item(name, val)>>) :
                          name \in typoNames, val \in typoValues}
                      \cup {configTypo(<<>>)}
        /\ argv \in {BaseArgv, BaseArgv \o <<"--partition", "express">>}
        /\ go_pc = "start"
        /\ go_err = ""
        /\ options = <<>>
        /\ parser_defaults = DeclaredDefaults(GmxParser)
        /\ args_known = <<>>
        /\ args_unknown = <<>>
        /\ NoScript
        /\ NoCall

SpecOptsKw == InitOptsKw /\ [][NextOpts]_vars

(***************************************************************************)
(* The analysis submit scripts.  The file system is the set "missing" of   *)
(* file names that do not exist; every other file exists.                  *)
(***************************************************************************)
MaxBins == 2
MaxMissing == 1

Flatten(seqs) ==
    LET RECURSIVE upto(_)
        upto(n) == IF n = 0 THEN <<>> ELSE upto(n - 1) \o seqs[n]
    IN  upto(Len(seqs))

(* The result of a script section that can raise. *)
Raised(exc, file) == [err |-> exc, file |-> file]

(* gmx.get_compressed_file(fname): the first of the file and its          *)
(* compressed copies that exists.                                          *)
CompressedFormats == <<"", ".gz", ".bz2", ".xz", ".lzma">>

get_compressed_file(fname, miss) ==
    LET files == [i \in 1..Len(CompressedFormats) |->
                     fname \o CompressedFormats[i]]
        found == {i \in 1..Len(files) : files[i] \notin miss}
    IN  IF found = {} THEN Raised("FileNotFoundError", fname)
        ELSE [err |-> "",
              file |-> files[CHOOSE i \in found : \A j \in found : i <= j]]

(* os.path.splitext(p) for a file name without directories. *)
splitext(p) ==
    LET dots == {i \in 2..Len(p) : CharAt(p, i) = "."}
        dot == CHOOSE i \in dots : \A j \in dots : j <= i
    IN  IF dots = {} THEN <<p, "">>
        ELSE <<SubSeq(p, 1, dot - 1), SubSeq(p, dot, Len(p))>>

(* The names under which a file is looked up besides its own: its          *)
(* compressed copies and, for a .npy file, the .npz archive.               *)
Copies(fname) ==
    {fname \o CompressedFormats[i] : i \in 2..Len(CompressedFormats)}
    \cup (IF splitext(fname)[2] = ".npy" THEN {splitext(fname)[1] \o ".npz"}
          ELSE {})

(* The files of m are missing in every form. *)
WithCopies(m) == m \cup UNION {Copies(fname) : fname \in m}

(* The file names the scripts build from --settings and --system. *)
InputFiles(settings, system) ==
    LET inpat == settings \o "_" \o system
        outpat == settings \o "_out_" \o system
    IN  [pattern |-> inpat,
         tpr |-> inpat \o ".tpr",
         edr |-> outpat \o ".edr",
         gro |-> outpat \o ".gro",
         log |-> outpat \o ".log",
         trr |-> outpat \o ".trr",
         xtc_wrapped |-> outpat \o "_pbc_whole_mol.xtc",
         xtc_unwrapped |-> outpat \o "_pbc_whole_mol_nojump.xtc",
         ndx |-> system \o ".ndx",
         dtrj_discrete_z |-> inpat \o "_discrete-z_Li_dtrj.npy",
         dtrj_renewal_ether |->
             inpat \o "_renewal_events_Li-ether_dtrj.npy",
         dtrj_renewal_tfsi |-> inpat \o "_renewal_events_Li-NTf2_dtrj.npy",
         bin_file |-> inpat \o "_density-z_number_Li_binsA.txt.gz"]

FilesOf(a) == InputFiles(DGet(a, "settings").s, DGet(a, "system").s)

(* The while loop that fills bin_edges, on doubles.  An edge is recorded    *)
(* as the float of its first three decimals, the most that the job         *)
(* scripts are given.                                                      *)
RECURSIVE BinEdgesFrom(_, _, _)
BinEdgesFrom(edge, zmax, slabwidth) ==
    IF FloatLess(edge, zmax)
    THEN LET append(next) == <<FloatOfMilli(MilliOfFloat(next))>>
                                 \o BinEdgesFrom(next, zmax, slabwidth)
         IN  append(FloatAdd(edge, slabwidth))
    ELSE <<>>

(* The slab options, shared by both scripts: --slabwidth, --center-slab,   *)
(* --zmax, --zmin and --discretize.  The selection test for --discretize   *)
(* is passed in as discretizable.  sw is args["slabwidth"] and a2 is args  *)
(* after the assignments to args["zmin"] and args["zmax"].                 *)
ProcessSlab(a, miss, discretizable) ==
    LET gro == FilesOf(a).gro
        center == Truthy(DGet(a, "center_slab"))
        noZmax == DGet(a, "zmax") = PyNone
        disc == Truthy(DGet(a, "discretize"))
        checked(sw, a2, zmin, zmax, nan) ==
            IF "slabwidth" \notin nan /\ sw <= 0 THEN Raised("ValueError", "")
            ELSE IF (center \/ noZmax) /\ gro \in miss
            THEN Raised("FileNotFoundError", gro)
            ELSE IF nan \cap {"zmin", "zmax"} = {} /\ zmax <= zmin
            THEN Raised("ValueError", "")
            ELSE IF disc /\ nan = {}
                    /\ FloatLess(FloatSub(float(zmax), float(zmin)), float(sw))
            THEN Raised("ValueError", "")
            ELSE IF disc /\ ~discretizable THEN Raised("ValueError", "")
            ELSE [err |-> "", file |-> "", args |-> a2,
                  bin_edges |-> IF ~disc THEN <<>>
                                ELSE IF nan \cap {"zmin", "zmax"} # {}
                                THEN <<DGet(a2, "zmin")>>
                                ELSE IF nan # {}
                                THEN <<DGet(a2, "zmin"), PyFloat("nan")>>
                                ELSE <<DGet(a2, "zmin")>>
                                     \o BinEdgesFrom(float(zmin), float(zmax),
                                                     float(sw))]
        bounded(sw, a2) ==
            checked(sw, a2, MilliOf(DGet(a2, "zmin")), MilliOf(DGet(a2, "zmax")),
                    {k \in {"slabwidth", "zmin", "zmax"} : IsNaN(DGet(a2, k))})
        centered(sw, box_z) ==
            bounded(sw,
                IF center /\ IsNaN(DGet(a, "slabwidth"))
                THEN DSet(DSet(a, "zmin", PyFloat("nan")),
                          "zmax", PyFloat("nan"))
                ELSE IF center
                THEN DSet(DSet(a, "zmin", FloatOfMilli((box_z - sw) \div 2)),
                          "zmax", FloatOfMilli((box_z + sw) \div 2))
                ELSE IF noZmax THEN DSet(a, "zmax", FloatOfMilli(box_z))
                ELSE a)
    IN  centered(MilliOf(DGet(a, "slabwidth")), BoxZ)

HasAny(scripts, substrings, tokens) ==
    \/ \E s \in substrings : Contains(scripts, s)
    \/ \E t \in tokens : t \in SeqToSet(Split(scripts))

(* Gromacs script, lines 617-694. *)
GmxProcessArgs(a, miss) ==
    LET log == FilesOf(a).log
        gro == FilesOf(a).gro
        noEnd == DGet(a, "end") = PyNone
        needNbins == HasAny(DGet(a, "scripts").s,
                            {"density-z", "potential-z"}, {"0", "1", "6"})
        processed(slab) ==
            IF noEnd /\ get_compressed_file(log, miss).err # ""
            THEN Raised("FileNotFoundError", log)
            ELSE IF slab.err # "" THEN Raised(slab.err, slab.file)
            ELSE IF needNbins /\ gro \in miss
            THEN Raised("FileNotFoundError", gro)
            ELSE [err |-> "", file |-> "", args |-> slab.args,
                  bin_edges |-> slab.bin_edges,
                  nbins |-> IF needNbins
                            THEN get_nbins(DGet(slab.args, "binwidth"))
                            ELSE PyNone]
    IN  processed(
            ProcessSlab(IF noEnd THEN DSet(a, "end", LogLastTime) ELSE a, miss,
                        HasAny(DGet(a, "scripts").s, {"slab-z", "densmap-z"},
                               {"0", "2", "4.2", "7"})))

(* MDTools script, lines 919-979. *)
MdtProcessArgs(a, miss) ==
    LET processed(slab) ==
            IF Milli(DGet(a, "binwidth")) <= 0 THEN Raised("ValueError", "")
            ELSE IF slab.err # "" THEN Raised(slab.err, slab.file)
            ELSE [err |-> "", file |-> "", args |-> slab.args,
                  bin_edges |-> slab.bin_edges, nbins |-> PyNone]
    IN  processed(
            ProcessSlab(a, miss,
                        HasAny(DGet(a, "scripts").s,
                               {"slab-z", "axial_hex_dist", "discrete-hex"},
                               {"0", "2", "4", "5", "6", "6.2"})))

When(cond, label) == IF cond THEN <<label>> ELSE <<>>

(* Gromacs script, lines 698-736: the file types one token of --scripts    *)
(* adds to the dictionary files, in the order of the code.                 *)
GmxRequires(script) ==
    When(script \in GMX_REQUIRE_EDR, "energy")
    \o When(script \in GMX_REQUIRE_NDX, "index")
    \o When(script \in GMX_REQUIRE_TRR, "full-precision trajectory")
    \o When(script \in GMX_REQUIRE_XTC_WRAPPED, "wrapped compressed trajectory")
    \o When(script \in GMX_REQUIRE_XTC_UNWRAPPED,
            "unwrapped compressed trajectory")
    \o CASE script \in {"0", "1"} -> <<"energy", "full-precision trajectory">>
         [] script = "2" -> <<"index", "full-precision trajectory",
                              "wrapped compressed trajectory">>
         [] script = "3" -> <<"full-precision trajectory">>
         [] script \in {"4", "4.1", "4.2"} ->
                <<"wrapped compressed trajectory">>
         [] script = "5" -> <<"index", "unwrapped compressed trajectory">>
         [] script = "6" -> <<"index", "wrapped compressed trajectory">>
         [] script = "7" -> <<"index", "full-precision trajectory">>
         [] OTHER -> <<>>

(* MDTools script, lines 983-1123. *)
MdtRequires(script) ==
    LET tpr == "run input"
        wrapped == "wrapped compressed trajectory"
        unwrapped == "unwrapped compressed trajectory"
        dtrj_z == "discretized trajectory (spatial z)"
        dtrj_ether == "discretized trajectory (renewal Li-ether)"
        dtrj_tfsi == "discretized trajectory (renewal Li-TFSI)"
    IN  When(script \in MDT_REQUIRE_TPR, tpr)
        \o When(script \in MDT_REQUIRE_EDR, "energy")
        \o When(script \in MDT_REQUIRE_TRR, "full-precision trajectory")
        \o When(script \in MDT_REQUIRE_XTC_WRAPPED, wrapped)
        \o When(script \in MDT_REQUIRE_XTC_UNWRAPPED, unwrapped)
        \o When(script \in MDT_REQUIRE_DTRJ_DISCRETE_Z, dtrj_z)
        \o When(script \in MDT_REQUIRE_DTRJ_RENEWAL_ETHER, dtrj_ether)
        \o When(script \in MDT_REQUIRE_DTRJ_RENEWAL_TFSI, dtrj_tfsi)
        \o When(script \in MDT_REQUIRE_BIN_FILE, "bin")
        \o CASE script \in {"0", "1"} -> <<tpr, wrapped, unwrapped, "bin">>
             [] script \in {"2", "4", "5", "6.1", "6.2", "8", "10"} ->
                    <<tpr, wrapped>>
             [] script \in {"3", "6", "6.3", "7"} -> <<tpr, wrapped, "bin">>
             [] script \in {"9", "9.2"} -> <<tpr, unwrapped, "bin">>
             [] script \in {"9.1", "9.3", "11.1"} -> <<tpr, unwrapped>>
             [] script = "11" -> <<tpr, unwrapped, dtrj_z>>
             [] script \in {"11.2", "11.4"} -> <<dtrj_z, dtrj_ether, dtrj_tfsi>>
             [] script = "11.3" -> <<dtrj_ether, dtrj_tfsi>>
             [] OTHER -> <<>>

(* The file a file type of the dictionary files stands for. *)
FileOfType(f, label) ==
    CASE label = "run input" -> f.tpr
      [] label = "energy" -> f.edr
      [] label = "index" -> f.ndx
      [] label = "full-precision trajectory" -> f.trr
      [] label = "wrapped compressed trajectory" -> f.xtc_wrapped
      [] label = "unwrapped compressed trajectory" -> f.xtc_unwrapped
      [] label = "discretized trajectory (spatial z)" -> f.dtrj_discrete_z
      [] label = "discretized trajectory (renewal Li-ether)" ->
             f.dtrj_renewal_ether
      [] label = "discretized trajectory (renewal Li-TFSI)" ->
             f.dtrj_renewal_tfsi
      [] label = "bin" -> f.bin_file

(* files.setdefault(label, ...) for each label in turn; looking up the     *)
(* energy file raises at once when it is missing.                          *)
RECURSIVE CollectFiles(_, _, _, _)
CollectFiles(labels, files, f, miss) ==
    IF labels = <<>> THEN [err |-> "", file |-> "", files |-> files]
    ELSE IF Head(labels) = "energy" /\ get_compressed_file(f.edr, miss).err # ""
    THEN Raised("FileNotFoundError", f.edr)
    ELSE CollectFiles(Tail(labels),
                      IF DHas(files, Head(labels)) THEN files
                      ELSE Append(files,
                               Item(Head(labels),
                                    IF Head(labels) = "energy"
                                    THEN get_compressed_file(f.edr, miss).file
                                    ELSE FileOfType(f, Head(labels)))),
                      f, miss)

(* What the message "No such file: '{}' ({} file)" names: the file and    *)
(* its type.                                                               *)
NoSuchFile(item) == "'" \o item.v \o "' (" \o item.k \o " file)"

(* The file check without the test for a .npz archive. *)
CheckFiles_npy_only(fam, a, miss) ==
    LET f == FilesOf(a)
        tokens == Split(DGet(a, "scripts").s)
        labels == Flatten([i \in 1..Len(tokens) |->
                      IF fam = "gmx" THEN GmxRequires(tokens[i])
                      ELSE MdtRequires(tokens[i])])
        files == CollectFiles(labels,
                     IF fam = "gmx" THEN <<Item("run input", f.tpr)>> ELSE <<>>,
                     f, miss)
        compressed(filename) == FALSE
        absent == {i \in 1..Len(files.files) :
                      /\ files.files[i].v \in miss
                      /\ ~compressed(files.files[i].v)}
        lmod == LmodFile(DGet(a, IF fam = "gmx" THEN "gmx_lmod"
                                 ELSE "py_lmod").s)
    IN  IF files.err # "" THEN files
        ELSE IF absent # {}
        THEN Raised("FileNotFoundError",
                    NoSuchFile(files.files[CHOOSE i \in absent :
                                               \A j \in absent : i <= j]))
        ELSE IF lmod \in miss THEN Raised("FileNotFoundError", lmod)
        ELSE [err |-> "", file |-> "", files |-> files.files]

(* The section "Checking if input files exist" and the test of the lmod    *)
(* file that follows it.                                                   *)
CheckFiles(fam, a, miss) ==
    LET f == FilesOf(a)
        tokens == Split(DGet(a, "scripts").s)
        labels == Flatten([i \in 1..Len(tokens) |->
                      IF fam = "gmx" THEN GmxRequires(tokens[i])
                      ELSE MdtRequires(tokens[i])])
        files == CollectFiles(labels,
                     IF fam = "gmx" THEN <<Item("run input", f.tpr)>> ELSE <<>>,
                     f, miss)
        compressed(filename) ==
            /\ fam = "mdt"
            /\ splitext(filename)[2] = ".npy"
            /\ (splitext(filename)[1] \o ".npz") \notin miss
        absent == {i \in 1..Len(files.files) :
                      /\ files.files[i].v \in miss
                      /\ ~compressed(files.files[i].v)}
        lmod == LmodFile(DGet(a, IF fam = "gmx" THEN "gmx_lmod"
                                 ELSE "py_lmod").s)
    IN  IF files.err # "" THEN files
        ELSE IF absent # {}
        THEN Raised("FileNotFoundError",
                    NoSuchFile(files.files[CHOOSE i \in absent :
                                               \A j \in absent : i <= j]))
        ELSE IF lmod \in miss THEN Raised("FileNotFoundError", lmod)
        ELSE [err |-> "", file |-> "", files |-> files.files]

(***************************************************************************)
(* Command assembly.  A command is the list of tokens that                 *)
(* shlex.split(submit) hands to subprocess.check_output.                   *)
(***************************************************************************)
ARG_PREC(fam) == IF fam = "gmx" THEN 3 ELSE 2

args_sbatch_no_dep(sbatch_opts) == DPop(DPop(sbatch_opts, "dependency"), "d")

(* args_sbatch_dep = copy.deepcopy(args_sbatch_no_dep);                    *)
(* args_sbatch_dep["dependency"] = "afterok:{}".format(job_id)             *)
args_sbatch_dep(sbatch_opts, job_id) ==
    DSet(args_sbatch_no_dep(sbatch_opts), "dependency",
         PyStr("afterok:" \o ToString(job_id)))

(* "sbatch " + optdict2str(sbatch_opts, ("None", "False"), ("True",)) *)
SbatchPrefix(sbatch_opts) ==
    <<"sbatch">> \o optdict2list(sbatch_opts, {"None", "False"}, {"True"})

(* The --job-name and --output defaults, the job script and its            *)
(* positional arguments: what one submission appends to the prefix.        *)
SubmitTail(sbatch_opts, pattern, job_script, suffix, posargs) ==
    (IF ~DHas(sbatch_opts, "job-name") /\ ~DHas(sbatch_opts, "J")
     THEN <<"--job-name", pattern \o "_" \o job_script \o suffix>>
     ELSE <<>>)
    \o (IF ~DHas(sbatch_opts, "output") /\ ~DHas(sbatch_opts, "o")
        THEN <<"--output",
               pattern \o "_" \o job_script \o suffix \o "_slurm-%j.out">>
        ELSE <<>>)
    \o <<job_script \o ".sh">> \o posargs

_assemble_submit_cmd(fam, a, nb, sbatch_opts, job_script) ==
    SbatchPrefix(sbatch_opts)
    \o SubmitTail(sbatch_opts, FilesOf(a).pattern, job_script, "",
                  posargs2str(IF fam = "gmx" THEN GMX_POSARGS(a, nb)[job_script]
                              ELSE MDT_POSARGS(a)[job_script],
                              ARG_PREC(fam)))

(* _submit_discretized: the command of the call for the i-th bin.  The     *)
(* string submit is set to the sbatch prefix before the loop and every     *)
(* pass of the loop appends to it.                                         *)
_submit_discretized(fam, a, sbatch_opts, job_script, bins, i) ==
    LET prec == ARG_PREC(fam)
        posargs == IF fam = "gmx" THEN GMX_POSARGS_DISCRETIZED(a)
                   ELSE MDT_POSARGS_DISCRETIZED(a)
        slab(k) == <<bins[k], bins[k + 1]>>
        slab_str(k) == "_" \o FormatValue(bins[k], prec) \o "-"
                       \o FormatValue(bins[k + 1], prec)
                       \o (IF fam = "gmx" THEN "nm" ELSE "A")
        RECURSIVE submit(_)
        submit(k) ==
            IF k = 0 THEN SbatchPrefix(sbatch_opts)
            ELSE submit(k - 1)
                 \o SubmitTail(sbatch_opts, FilesOf(a).pattern, job_script,
                               slab_str(k),
                               posargs2str(posargs[job_script] \o slab(k),
                                           prec))
    IN  submit(i)

(***************************************************************************)
(* The submission section as the list of sbatch calls the script will      *)
(* make, in order.  A call names the job script, the variable holding its  *)
(* sbatch options, the job_id variable its output is parsed into (or ""),  *)
(* the bin it is for (0 outside _submit_discretized) and the block of the  *)
(* submission section that issues it.                                      *)
(***************************************************************************)
Job(script, opts, capture, bin, block) ==
    [script |-> script, opts |-> opts, capture |-> capture, bin |-> bin,
     block |-> block]

(* _submit(sbatch_opts, job_script) *)
_submit(fam, a, bins, opts, job_script, block) ==
    LET system == DGet(a, "system").s
        electrodes == IF fam = "gmx"
                      THEN job_script \in {"msd_electrodes", "densmap-z_gra"}
                      ELSE \/ Contains(job_script, "axial_hex_dist")
                           \/ Contains(job_script, "discrete-hex")
        slab == IF fam = "gmx"
                THEN \/ Contains(job_script, "densmap-z")
                     \/ Contains(job_script, "rdf_slab-z")
                ELSE \/ Contains(job_script, "axial_hex_dist")
                     \/ Contains(job_script, "contact_hist_slab-z")
                     \/ Contains(job_script, "discrete-hex")
    IN  IF ~Contains(system, "gra") /\ electrodes THEN <<>>
        ELSE IF Truthy(DGet(a, "discretize")) /\ slab
        THEN [i \in 1..(Len(bins) - 1) |-> Job(job_script, opts, "", i, block)]
        ELSE <<Job(job_script, opts, "", 0, block)>>

(* for batch_script in posargs.keys(): the scripts in the set kept are     *)
(* submitted through _submit with the options opts names for them.         *)
SubmitAll(fam, a, bins, block, kept, opts) ==
    LET scripts == IF fam = "gmx" THEN GMX_SCRIPTS ELSE MDT_SCRIPTS
    IN  Flatten([i \in 1..Len(scripts) |->
                    IF scripts[i] \in kept
                    THEN _submit(fam, a, bins, opts[scripts[i]], scripts[i],
                                 block)
                    ELSE <<>>])

UserOpts(job_script) == "args_sbatch"

(* Gromacs script, lines 873-880: the options a script of the chain of     *)
(* categories 0 and 1 is submitted with.                                   *)
GmxChainOpts_index_job_for_all(batch_script) ==
    IF batch_script \in GMX_REQUIRE_XTC_UNWRAPPED
          \cup GMX_REQUIRE_XTC_WRAPPED \cup GMX_REQUIRE_NDX
    THEN "args_sbatch_dep_make_ndx"
    ELSE "args_sbatch"

GmxChainOpts(batch_script) ==
    IF batch_script \in GMX_REQUIRE_XTC_UNWRAPPED
    THEN "args_sbatch_dep_trjconv_nojump"
    ELSE IF batch_script \in GMX_REQUIRE_XTC_WRAPPED
    THEN "args_sbatch_dep_trjconv_whole"
    ELSE IF batch_script \in GMX_REQUIRE_NDX
    THEN "args_sbatch_dep_make_ndx"
    ELSE "args_sbatch"

(* Gromacs script, lines 820-929. *)
GmxPlan(a, bins) ==
    LET tokens == SeqToSet(Split(DGet(a, "scripts").s))
        names == SeqToSet(GMX_SCRIPTS)
        all(keep(_), opts(_), block) ==
            SubmitAll("gmx", a, bins, block, {s \in names : keep(s)},
                      [s \in names |-> opts(s)])
        has(s, sub) == Contains(s, sub)
        slab(s) == has(s, "densmap-z") \/ has(s, "rdf_slab-z")
        category(code, keep(_)) ==
            IF code \in tokens
            THEN all(keep, UserOpts, code)
            ELSE <<>>
    IN  all(LAMBDA s : s \in tokens, UserOpts, "name")
        \o (IF "0" \in tokens \/ "1" \in tokens
            THEN <<Job("make_ndx", "args_sbatch", "job_id_make_ndx", 0, "0"),
                   Job("trjconv_whole", "args_sbatch_dep_make_ndx",
                       "job_id_trjconv_whole", 0, "0"),
                   Job("trjconv_nojump", "args_sbatch_dep_trjconv_whole",
                       "job_id_trjconv_nojump", 0, "0")>>
                 \o all(LAMBDA s : /\ "0" \in tokens \/ ~slab(s)
                                   /\ s \notin {"make_ndx", "trjconv_whole",
                                                "trjconv_nojump"},
                        GmxChainOpts, "0")
            ELSE <<>>)
        \o category("2", slab)
        \o (IF "3" \in tokens
            THEN <<Job("trjconv_whole", "args_sbatch", "job_id", 0, "3"),
                   Job("trjconv_nojump", "args_sbatch_dep", "", 0, "3")>>
            ELSE <<>>)
        \o category("4", LAMBDA s : has(s, "rdf"))
        \o category("4.1", LAMBDA s : has(s, "rdf") /\ ~has(s, "slab-z"))
        \o category("4.2", LAMBDA s : has(s, "rdf_slab-z"))
        \o category("5", LAMBDA s : has(s, "msd"))
        \o category("6", LAMBDA s : has(s, "density-z") \/ has(s, "potential-z"))
        \o category("7", LAMBDA s : has(s, "densmap-z"))

(* MDTools script, lines 1447-1471. *)
MdtChainOpts(batch_script) ==
    IF batch_script \in MDT_REQUIRE_DTRJ_RENEWAL_ETHER
    THEN "args_sbatch_dep_renewal_ether"
    ELSE IF batch_script \in MDT_REQUIRE_DTRJ_RENEWAL_TFSI
    THEN "args_sbatch_dep_renewal_tfsi"
    ELSE IF batch_script \in MDT_REQUIRE_DTRJ_DISCRETE_Z
    THEN "args_sbatch_dep_discrete_z_li"
    ELSE "args_sbatch_dep_mda_universe"

(* MDTools script, lines 1595-1610. *)
MdtRenewalOpts(batch_script) ==
    IF batch_script \in MDT_REQUIRE_DTRJ_RENEWAL_ETHER
    THEN "args_sbatch_dep_renewal_ether"
    ELSE IF batch_script \in MDT_REQUIRE_DTRJ_RENEWAL_TFSI
    THEN "args_sbatch_dep_renewal_tfsi"
    ELSE "LookupError"

(* MDTools script, lines 1382-1665. *)
MdtPlan(a, bins) ==
    LET tokens == SeqToSet(Split(DGet(a, "scripts").s))
        names == SeqToSet(MDT_SCRIPTS)
        all(keep(_), opts(_), block) ==
            SubmitAll("mdt", a, bins, block, {s \in names : keep(s)},
                      [s \in names |-> opts(s)])
        has(s, sub) == Contains(s, sub)
        slab(s) == \/ has(s, "axial_hex_dist")
                   \/ has(s, "contact_hist_slab-z")
                   \/ has(s, "discrete-hex")
        renewal == {"renewal_events_Li-ether", "renewal_events_Li-NTf2"}
        onTrj(s) == s \notin renewal /\ has(s, "renewal_events")
        category(code, keep(_)) ==
            IF code \in tokens
            THEN all(keep, UserOpts, code)
            ELSE <<>>
        direct(keep(_), opts, block) ==
            LET found == SelectSeq(MDT_SCRIPTS, keep)
            IN  [i \in 1..Len(found) |-> Job(found[i], opts, "", 0, block)]
    IN  all(LAMBDA s : s \in tokens, UserOpts, "name")
        \o (IF "0" \in tokens \/ "1" \in tokens
            THEN <<Job("create_mda_universe", "args_sbatch",
                       "job_id_mda_universe", 0, "0"),
                   Job("discrete-z_Li", "args_sbatch_dep_mda_universe",
                       "job_id_discrete_z_li", 0, "0"),
                   Job("renewal_events_Li-ether",
                       "args_sbatch_dep_discrete_z_li",
                       "job_id_renewal_ether", 0, "0"),
                   Job("renewal_events_Li-NTf2",
                       "args_sbatch_dep_discrete_z_li",
                       "job_id_renewal_tfsi", 0, "0")>>
                 \o all(LAMBDA s : /\ "0" \in tokens \/ ~slab(s)
                                   /\ s \notin {"create_mda_universe",
                                                "discrete-z_Li"} \cup renewal
                                   /\ s # "energy_dist"
                                   /\ ~has(s, "attribute_hist")
                                   /\ ~has(s, "lig_change_at_pos_change"),
                        MdtChainOpts, "0")
            ELSE <<>>)
        \o category("2", slab)
        \o (IF "3" \in tokens
            THEN <<Job("discrete-z_Li", "args_sbatch", "job_id", 0, "3")>>
                 \o direct(LAMBDA s : has(s, "discrete-z_Li_"),
                           "args_sbatch_dep", "3")
            ELSE <<>>)
        \o category("4", LAMBDA s : has(s, "discrete-hex"))
        \o category("5", LAMBDA s : has(s, "axial_hex_dist"))
        \o category("6", LAMBDA s : has(s, "contact_hist"))
        \o category("6.1", LAMBDA s : /\ has(s, "contact_hist")
                                      /\ ~has(s, "contact_hist_at_pos_change")
                                      /\ ~has(s, "contact_hist_slab-z"))
        \o category("6.2", LAMBDA s : has(s, "contact_hist_slab-z"))
        \o category("6.3", LAMBDA s : has(s, "contact_hist_at_pos_change"))
        \o category("7", LAMBDA s : has(s, "lig_change_at_pos_change"))
        \o category("8", LAMBDA s : has(s, "topo_map"))
        \o category("9", LAMBDA s : has(s, "msd"))
        \o category("9.1", LAMBDA s : /\ has(s, "msd")
                                      /\ ~has(s, "msd_at_coord_change")
                                      /\ ~has(s, "msd_layer"))
        \o category("9.2", LAMBDA s : has(s, "msd_layer"))
        \o category("9.3", LAMBDA s : has(s, "msd_at_coord_change"))
        \o category("10", LAMBDA s : has(s, "lifetime_autocorr"))
        \o (IF "11" \in tokens
            THEN <<Job("renewal_events_Li-ether", "args_sbatch",
                       "job_id_renewal_ether", 0, "11"),
                   Job("renewal_events_Li-NTf2", "args_sbatch",
                       "job_id_renewal_tfsi", 0, "11")>>
                 \o all(onTrj, MdtRenewalOpts, "11")
            ELSE <<>>)
        \o category("11.1", LAMBDA s : s \in renewal)
        \o category("11.2", onTrj)
        \o category("11.3", LAMBDA s : onTrj(s) /\ ~has(s, "discrete"))
        \o category("11.4", LAMBDA s : onTrj(s) /\ has(s, "discrete"))
        \o category("12", LAMBDA s : \/ s = "energy_dist"
                                     \/ has(s, "attribute_hist"))
        \o category("13", LAMBDA s : has(s, "attribute_hist"))

(***************************************************************************)
(* Runs of the two analysis submit scripts.                                *)
(***************************************************************************)
SubmitSecs(fam, kind) ==
    <<kind, kind \o ".analysis", kind \o ".analysis.lintf2_ether",
      kind \o ".analysis.lintf2_ether." \o fam>>

(* The values --scripts takes in the bounded runs: every script name,      *)
(* every category code and one selection of two tokens.                    *)
Selections(fam) ==
    IF fam = "gmx"
    THEN SeqToSet(GMX_SCRIPTS)
         \cup {"0", "1", "2", "3", "4", "4.1", "4.2", "5", "6", "7"}
         \cup {"1 5"}
    ELSE SeqToSet(MDT_SCRIPTS)
         \cup {"0", "1", "2", "3", "4", "5", "6", "6.1", "6.2", "6.3", "7",
               "8", "9", "9.1", "9.2", "9.3", "10", "11", "11.1", "11.2",
               "11.3", "11.4", "12", "13"}
         \cup {"energy_dist 3"}

(* --discretize with slabs of the default width between 0 and --zmax. *)
DiscretizeArgs(fam) ==
    <<"--discretize", "--zmax",
      IF fam = "gmx" THEN "0." \o ToString(MaxBins) ELSE ToString(MaxBins)>>

(* The ways the user passes a dependency to sbatch. *)
DependencyModes == {"none", "config", "long", "long=", "short", "short="}

DependencyArgs(mode) ==
    CASE mode = "long" -> <<"--dependency", "afterok:5">>
      [] mode = "long=" -> <<"--dependency=afterok:5">>
      [] mode = "short" -> <<"-d", "afterok:5">>
      [] mode = "short=" -> <<"-d=afterok:5">>
      [] OTHER -> <<>>

DependencyConfig(mode) ==
    IF mode = "config"
    THEN [sec \in {"sbatch"} |-> <<Item("dependency", "afterok:5")>>]
    ELSE [sec \in {} |-> <<>>]

(* The input files that can be missing. *)
InputFileNames(fam, system) ==
    LET f == InputFiles("set", system)
    IN  IF fam = "gmx"
        THEN {f.tpr, f.edr, f.gro, f.log, f.trr, f.xtc_wrapped,
              f.xtc_unwrapped, f.ndx}
        ELSE {f.tpr, f.edr, f.gro, f.trr, f.xtc_wrapped, f.xtc_unwrapped,
              f.dtrj_discrete_z, f.dtrj_renewal_ether, f.dtrj_renewal_tfsi,
              f.bin_file}

InitSubmit ==
    /\ family \in {"gmx", "mdt"}
    /\ secs_known = SubmitSecs(family, "submit")
    /\ secs_unknown = SubmitSecs(family, "sbatch")
    /\ unknown_is_none = FALSE
    /\ ignore_unknown_opts = TRUE
    /\ \E system \in {"sys", "gra"}, scripts \in Selections(family),
          discretize \in BOOLEAN, mode \in DependencyModes :
          /\ missing \in {WithCopies(m) :
                            m \in {n \in SUBSET InputFileNames(family, system) :
                                      Cardinality(n) <= MaxMissing}}
          /\ missing # {} =>
                 system = "gra" /\ ~discretize /\ mode = "none"
          /\ config = DependencyConfig(mode)
          /\ argv = <<"--system", system, "--settings", "set",
                      "--scripts", scripts>>
                    \o (IF discretize THEN DiscretizeArgs(family) ELSE <<>>)
                    \o DependencyArgs(mode)
    /\ go_pc = "start"
    /\ go_err = ""
    /\ options = <<>>
    /\ parser_defaults = DeclaredDefaults(Parser)
    /\ args_known = <<>>
    /\ args_unknown = <<>>
    /\ pc = "start"
    /\ err = ""
    /\ errmsg = ""
    /\ args = <<>>
    /\ args_sbatch = <<>>
    /\ bin_edges = <<>>
    /\ nbins = PyNone
    /\ todo = <<>>
    /\ job_ids = <<>>
    /\ calls = <<>>
    /\ n_scripts_submitted = 0
    /\ sbatch = ""
    /\ warned = <<>>
    /\ NoCall

(* The exception is caught and the script goes on where it was. *)
Raise_caught(r) ==
    /\ pc' = pc
    /\ err' = r.err
    /\ errmsg' = r.file

(* The script ends with an exception. *)
Raise(r) ==
    /\ pc' = "error"
    /\ err' = r.err
    /\ errmsg' = r.file

(* get_opts has returned: lines 600-615 of the Gromacs script, 896-917 of  *)
(* the MDTools script.                                                     *)
ScriptStart ==
    /\ pc = "start"
    /\ go_pc = "done"
    /\ args' = options[secs_known[1]]
    /\ args_sbatch' = options[secs_unknown[1]]
    /\ pc' = "process"
    /\ UNCHANGED <<optsVars, pureVars, sbatch, warned, family, missing,
                   err, errmsg, bin_edges, nbins,
                   todo, job_ids, calls, n_scripts_submitted>>

(* "Processing parsed arguments..." *)
ProcessArgs ==
    /\ pc = "process"
    /\ \E r \in {IF family = "gmx" THEN GmxProcessArgs(args, missing)
                 ELSE MdtProcessArgs(args, missing)} :
           IF r.err # ""
           THEN Raise(r) /\ UNCHANGED <<args, bin_edges, nbins>>
           ELSE /\ args' = r.args
                /\ bin_edges' = r.bin_edges
                /\ nbins' = r.nbins
                /\ pc' = "files"
                /\ UNCHANGED <<err, errmsg>>
    /\ UNCHANGED <<optsVars, pureVars, sbatch, warned, family, missing,
                   args_sbatch, todo, job_ids,
                   calls, n_scripts_submitted>>

(* "Checking if input files exist..." and "Preparing positional arguments  *)
(* for the slurm job scripts...", up to n_scripts_submitted = 0.           *)
CheckInputFiles ==
    /\ pc = "files"
    /\ LET r == CheckFiles(family, args, missing)
       IN  IF r.err # ""
           THEN Raise(r) /\ UNCHANGED <<todo, n_scripts_submitted>>
           ELSE /\ todo' = IF family = "gmx" THEN GmxPlan(args, bin_edges)
                           ELSE MdtPlan(args, bin_edges)
                /\ n_scripts_submitted' = 0
                /\ pc' = "submit"
                /\ UNCHANGED <<err, errmsg>>
    /\ UNCHANGED <<optsVars, pureVars, sbatch, warned, family, missing,
                   args, args_sbatch, bin_edges,
                   nbins, job_ids, calls>>

(* The job_id variable behind a variable args_sbatch_dep...: the one with  *)
(* the same suffix.                                                        *)
JobIdOf(opts) == "job_id" \o SubSeq(opts, Len("args_sbatch_dep") + 1, Len(opts))

(* The command of the next sbatch call if the dictionaries of the chains   *)
(* were the baseline itself and not deep copies of it: the dependency of   *)
(* the last chain written is then part of args_sbatch.                     *)
SubmitCmd_shared_dict(job) ==
    LET shared == IF job_ids = <<>> THEN args_sbatch
                  ELSE args_sbatch_dep(args_sbatch, job_ids[Len(job_ids)].v)
        sbatch_opts ==
            IF job.opts = "args_sbatch" THEN shared
            ELSE args_sbatch_dep(args_sbatch, DGet(job_ids, JobIdOf(job.opts)))
    IN  IF job.bin = 0
        THEN _assemble_submit_cmd(family, args, nbins, sbatch_opts, job.script)
        ELSE _submit_discretized(family, args, sbatch_opts, job.script,
                                 bin_edges, job.bin)

(* The command of the next sbatch call. *)
SubmitCmd(job) ==
    LET sbatch_opts ==
            IF job.opts = "args_sbatch" THEN args_sbatch
            ELSE args_sbatch_dep(args_sbatch, DGet(job_ids, JobIdOf(job.opts)))
    IN  IF job.bin = 0
        THEN _assemble_submit_cmd(family, args, nbins, sbatch_opts, job.script)
        ELSE _submit_discretized(family, args, sbatch_opts, job.script,
                                 bin_edges, job.bin)

(* What sbatch prints for the n-th job it accepts. *)
SbatchStdout(n) == "Submitted batch job " \o ToString(100 + n)

(* A count of one for every job script, whatever the number of its bins. *)
n_jobs_submitted_per_script(job, bins) ==
    IF job.bin = 0 \/ job.bin = Len(bins) - 1 THEN 1 ELSE 0

(* What the submission of job adds to n_scripts_submitted once it has      *)
(* returned: 1 after a single call, and the number of bins after the last  *)
(* call of _submit_discretized, whose count comes with its return.         *)
n_jobs_submitted(job, bins) ==
    IF job.bin = 0 THEN 1
    ELSE IF job.bin = Len(bins) - 1 THEN job.bin
    ELSE 0

(* One subproc.check_output(shlex.split(submit)) and what the script does  *)
(* with its result.  sbatch accepts the job and prints its ID, or accepts  *)
(* it and prints no number, or exits with an error.  Where the script      *)
(* drops the output, only the first and the last are told apart.           *)
Submit ==
    /\ pc = "submit"
    /\ todo # <<>>
    /\ LET job == Head(todo)
       IN  IF job.opts = "LookupError"
           THEN /\ Raise(Raised("LookupError", ""))
                /\ UNCHANGED <<todo, job_ids, calls, n_scripts_submitted>>
           ELSE \E result \in {"id", "exit"}
                              \cup (IF job.capture # "" THEN {"no id"} ELSE {}) :
                LET stdout == CASE result = "id" -> SbatchStdout(Len(calls) + 1)
                                [] result = "no id" -> "sbatch: job queued"
                                [] result = "exit" -> ""
                    ints == extract_ints_from_str(stdout)
                IN  /\ calls' = Append(calls, [cmd |-> SubmitCmd(job),
                                               out |-> stdout, job |-> job])
                    /\ IF result = "exit"
                       THEN /\ Raise(Raised("CalledProcessError", ""))
                            /\ UNCHANGED <<todo, job_ids, n_scripts_submitted>>
                       ELSE IF job.capture # "" /\ ints = <<>>
                       THEN /\ Raise(Raised("IndexError", ""))
                            /\ UNCHANGED <<todo, job_ids, n_scripts_submitted>>
                       ELSE /\ job_ids' = IF job.capture # ""
                                          THEN DSet(job_ids, job.capture, ints[1])
                                          ELSE job_ids
                            /\ todo' = Tail(todo)
                            /\ n_scripts_submitted' =
                                   n_scripts_submitted
                                   + n_jobs_submitted(job, bin_edges)
                            /\ UNCHANGED <<pc, err, errmsg>>
    /\ UNCHANGED <<optsVars, pureVars, sbatch, warned, family, missing,
                   args, args_sbatch, bin_edges,
                   nbins>>

(* "Submitted {} jobs", and the warning if there is none. *)
Finish ==
    /\ pc = "submit"
    /\ todo = <<>>
    /\ warned' = IF n_scripts_submitted = 0 THEN Append(warned, "UserWarning")
                 ELSE warned
    /\ pc' = "done"
    /\ UNCHANGED <<optsVars, pureVars, sbatch, family, missing, err, errmsg, args,
                   args_sbatch, bin_edges, nbins, todo, job_ids, calls,
                   n_scripts_submitted>>

NextSubmit ==
    \/ GetOptsCheckSections
    \/ GetOptsMergeConfig
    \/ GetOptsSetDefaults
    \/ GetOptsParse
    \/ GetOptsRevalidate
    \/ GetOptsReturn
    \/ ScriptStart
    \/ ProcessArgs
    \/ CheckInputFiles
    \/ Submit
    \/ Finish

SpecSubmit == InitSubmit /\ [][NextSubmit]_vars
(***************************************************************************)
(* Runs of the two analysis submit scripts that differ in the options      *)
(* handed on to sbatch: one option --comment with values of several        *)
(* kinds, and the job name and the output file in their spellings.  The    *)
(* selection is one script or the chain of category 3.                     *)
(***************************************************************************)
InitSubmitOpts ==
    LET values == {"express", "007", "none", "false", "True", "1.50", "-abc"}
        passed == {<<"--comment", v>> : v \in values}
        named == {<<"--job-name", "x">>, <<"--job-name=x">>, <<"-J", "x">>,
                  <<"--output", "o.out">>, <<"--output=o.out">>,
                  <<"-o", "o.out">>, <<"-J", "x", "-o", "o.out">>}
    IN  /\ family \in {"gmx", "mdt"}
        /\ secs_known = SubmitSecs(family, "submit")
        /\ secs_unknown = SubmitSecs(family, "sbatch")
        /\ unknown_is_none = FALSE
        /\ ignore_unknown_opts = TRUE
        /\ missing = {}
        /\ config = [sec \in {} |-> <<>>]
        /\ \E scripts \in {IF family = "gmx" THEN "energy" ELSE "energy_dist",
                           "3"},
              given \in passed \cup named \cup {<<>>} :
              argv = <<"--system", "sys", "--settings", "set",
                       "--scripts", scripts>> \o given
        /\ go_pc = "start"
        /\ go_err = ""
        /\ options = <<>>
        /\ parser_defaults = DeclaredDefaults(Parser)
        /\ args_known = <<>>
        /\ args_unknown = <<>>
        /\ pc = "start"
        /\ err = ""
        /\ errmsg = ""
        /\ args = <<>>
        /\ args_sbatch = <<>>
        /\ bin_edges = <<>>
        /\ nbins = PyNone
        /\ todo = <<>>
        /\ job_ids = <<>>
        /\ calls = <<>>
        /\ n_scripts_submitted = 0
        /\ sbatch = ""
        /\ warned = <<>>
        /\ NoCall

SpecSubmitOpts == InitSubmitOpts /\ [][NextSubmit]_vars

(***************************************************************************)
(* Runs of the two analysis submit scripts that differ in the slab         *)
(* options: --discretize and --center-slab given on the command line, in   *)
(* the config file or not at all, and the range and the width of the       *)
(* slabs.  The selection is one script that analyzes a slab.  The type of  *)
(* the three options is float, which takes "nan" as well as decimals.      *)
(***************************************************************************)
SlabRanges ==
    {<<"0", "1.05", "0.5">>, <<"0", "0.8", "0.1">>, <<"0", "0.3", "0.1">>,
     <<"0.1", "0.3", "0.2">>, <<"0.2", "0.6", "0.2">>, <<"0", "0.9", "0.3">>,
     <<"0.25", "0.5", "0.25">>, <<"0.5", "0.2", "0.1">>,
     <<"0", "0.1", "0.5">>, <<"0", "1", "0">>, <<"0.5", "0.5", "0.1">>,
     <<"0", "1", "nan">>, <<"0", "nan", "0.5">>, <<"nan", "1", "0.5">>}

FlagModes == {"none", "cli", "config"}

FlagValues == {"True", "yes", "1"}

InitSlab ==
    /\ family \in {"gmx", "mdt"}
    /\ secs_known = SubmitSecs(family, "submit")
    /\ secs_unknown = SubmitSecs(family, "sbatch")
    /\ unknown_is_none = FALSE
    /\ ignore_unknown_opts = TRUE
    /\ missing = {}
    /\ \E range \in SlabRanges, discretize \in FlagModes, center \in FlagModes,
          value \in FlagValues :
          LET given(mode, name) ==
                  IF mode = "config" THEN <<Item(name, value)>> ELSE <<>>
              items == given(discretize, "discretize")
                           \o given(center, "center-slab")
          IN  /\ ("config" \notin {discretize, center}) => value = "True"
              /\ (discretize = "config" \/ center # "none")
                     => range = <<"0", "1.05", "0.5">>
              /\ config = IF items = <<>> THEN [sec \in {} |-> <<>>]
                          ELSE [sec \in {"submit"} |-> items]
              /\ argv = <<"--system", "sys", "--settings", "set", "--scripts",
                          IF family = "gmx" THEN "rdf_slab-z_Li"
                          ELSE "discrete-hex_Li",
                          "--zmin", range[1], "--zmax", range[2],
                          "--slabwidth", range[3]>>
                        \o (IF discretize = "cli" THEN <<"--discretize">>
                            ELSE <<>>)
                        \o (IF center = "cli" THEN <<"--center-slab">>
                            ELSE <<>>)
    /\ go_pc = "start"
    /\ go_err = ""
    /\ options = <<>>
    /\ parser_defaults = DeclaredDefaults(Parser)
    /\ args_known = <<>>
    /\ args_unknown = <<>>
    /\ pc = "start"
    /\ err = ""
    /\ errmsg = ""
    /\ args = <<>>
    /\ args_sbatch = <<>>
    /\ bin_edges = <<>>
    /\ nbins = PyNone
    /\ todo = <<>>
    /\ job_ids = <<>>
    /\ calls = <<>>
    /\ n_scripts_submitted = 0
    /\ sbatch = ""
    /\ warned = <<>>
    /\ NoCall

SpecSlab == InitSlab /\ [][NextSubmit]_vars

(***************************************************************************)
(* Runs of the MDTools submit script that differ in the input files that   *)
(* exist: for each selection, the files it looks up and the other names    *)
(* under which they are accepted, each present or not.                     *)
(***************************************************************************)
DtrjRuns ==
    LET f == InputFiles("set", "sys")
        forms(fname) == {fname} \cup Copies(fname)
    IN  {<<"energy_dist", forms(f.edr)>>,
         <<"11", {f.tpr, f.xtc_unwrapped} \cup forms(f.dtrj_discrete_z)>>,
         <<"11.2", {f.dtrj_discrete_z, splitext(f.dtrj_discrete_z)[1] \o ".npz",
                    f.dtrj_renewal_ether,
                    splitext(f.dtrj_renewal_ether)[1] \o ".npz",
                    f.dtrj_renewal_tfsi,
                    splitext(f.dtrj_renewal_tfsi)[1] \o ".npz"}>>,
         <<"11.3", {f.dtrj_renewal_ether,
                    splitext(f.dtrj_renewal_ether)[1] \o ".npz",
                    f.dtrj_renewal_tfsi, f.dtrj_renewal_tfsi \o ".gz"}>>,
         <<"renewal_events_Li-ether_back_jump_prob_discrete",
           {f.dtrj_discrete_z, splitext(f.dtrj_discrete_z)[1] \o ".npz",
            f.dtrj_renewal_ether, f.dtrj_renewal_ether \o ".gz"}>>,
         <<"discrete-z_Li", {f.tpr, f.tpr \o ".gz", f.bin_file,
                             splitext(f.bin_file)[1] \o ".npz"}>>}

InitDtrj ==
    /\ family = "mdt"
    /\ secs_known = SubmitSecs(family, "submit")
    /\ secs_unknown = SubmitSecs(family, "sbatch")
    /\ unknown_is_none = FALSE
    /\ ignore_unknown_opts = TRUE
    /\ config = [sec \in {} |-> <<>>]
    /\ \E run \in DtrjRuns :
          /\ missing \in SUBSET run[2]
          /\ argv = <<"--system", "sys", "--settings", "set",
                      "--scripts", run[1]>>
    /\ go_pc = "start"
    /\ go_err = ""
    /\ options = <<>>
    /\ parser_defaults = DeclaredDefaults(Parser)
    /\ args_known = <<>>
    /\ args_unknown = <<>>
    /\ pc = "start"
    /\ err = ""
    /\ errmsg = ""
    /\ args = <<>>
    /\ args_sbatch = <<>>
    /\ bin_edges = <<>>
    /\ nbins = PyNone
    /\ todo = <<>>
    /\ job_ids = <<>>
    /\ calls = <<>>
    /\ n_scripts_submitted = 0
    /\ sbatch = ""
    /\ warned = <<>>
    /\ NoCall

SpecDtrj == InitDtrj /\ [][NextSubmit]_vars

(***************************************************************************)
(* simulation/gmx/submit_gmx_mdrun.py                                      *)
(***************************************************************************)
MaxResubmits == 2

MdrunParser == <<
    OptDest("--system", "SYSTEM", "store", "str", PyNone, TRUE, {}),
    OptDest("--settings", "SETTINGS", "store", "str", PyNone, TRUE, {}),
    OptDest("--structure", "STRUCTURE", "store", "str", PyInt(0), FALSE, {}),
    OptDest("--continue", "CONTINUE", "store", "int", PyInt(0), FALSE,
            {PyInt(0), PyInt(1), PyInt(2), PyInt(3)}),
    OptDest("--nresubmits", "NRESUBMITS", "store", "int", PyInt(10), FALSE, {}),
    OptDest("--no-backup", "NO_BACKUP", "store_true", "", PyFalse, FALSE, {}),
    OptDest("--gmx-lmod", "GMX_LMOD", "store", "str",
            PyStr("palma/2019a/gmx2018-8_foss.sh"), FALSE, {}),
    OptDest("--gmx-exe", "GMX_EXE", "store", "str", PyStr("gmx"), FALSE, {}),
    OptDest("--gmx-mpi-exe", "GMX_MPI_EXE", "store", "str", PyInt(0), FALSE, {}),
    OptDest("--no-guess-threads", "NO_GUESS_THREADS", "store_true", "",
            PyFalse, FALSE, {}),
    OptDest("--mdrun-flags", "GMX_MDRUN_FLAGS", "store", "str",
            PyStr("-cpt 60"), FALSE, {}),
    OptDest("--grompp-flags", "GMX_GROMPP_FLAGS", "store", "str", PyStr(""),
            FALSE, {}),
    OptDest("--kill-on-invalid-dep", "SBATCH_kill-on-invalid-dep", "store",
            "str", PyStr("yes"), FALSE, {PyStr("yes"), PyStr("no")}),
    OptDest("--mail-type", "SBATCH_mail-type", "store", "str", PyStr("FAIL"),
            FALSE,
            {PyStr(c) : c \in {"NONE", "BEGIN", "END", "FAIL", "REQUEUE", "ALL",
                               "INVALID_DEPEND", "STAGE_OUT", "TIME_LIMIT",
                               "TIME_LIMIT_90", "TIME_LIMIT_80",
                               "TIME_LIMIT_50", "ARRAY_TASKS"}}),
    OptDest("--mail-user", "SBATCH_mail-user", "store", "str", PyNone, FALSE, {}),
    OptDest("--nodes", "SBATCH_nodes", "store", "str", PyStr("1"), FALSE, {}),
    OptDest("--non-exclusive", "NON_EXCLUSIVE", "store_true", "", PyFalse,
            FALSE, {}),
    OptDest("--partition", "SBATCH_partition", "store", "str", PyNone, FALSE, {}),
    OptDest("--requeue", "REQUEUE", "store_true", "", PyFalse, FALSE, {}),
    OptDest("--sbatch", "SB_OPTIONS", "store", "str", PyNone, FALSE, {}) >>

(* s.split(c) *)
RECURSIVE SplitAt(_, _)
SplitAt(s, c) ==
    IF \E i \in 1..Len(s) : CharAt(s, i) = c
    THEN LET i == CHOOSE i \in 1..Len(s) :
                      CharAt(s, i) = c /\ \A j \in 1..(i - 1) : CharAt(s, j) # c
         IN  <<SubSeq(s, 1, i - 1)>> \o SplitAt(SubSeq(s, i + 1, Len(s)), c)
    ELSE <<s>>

(* shlex.split(s) for strings whose only quotes are single quotes. *)
RECURSIVE ShlexScan(_, _, _, _, _)
ShlexScan(s, i, cur, quoted, open) ==
    IF i > Len(s) THEN (IF open THEN <<cur>> ELSE <<>>)
    ELSE IF CharAt(s, i) = "'"
    THEN ShlexScan(s, i + 1, cur, ~quoted, TRUE)
    ELSE IF CharAt(s, i) = " " /\ ~quoted
    THEN (IF open THEN <<cur>> ELSE <<>>) \o ShlexScan(s, i + 1, "", FALSE, FALSE)
    ELSE ShlexScan(s, i + 1, cur \o CharAt(s, i), quoted, TRUE)

shlex_split(s) == ShlexScan(s, 1, "", FALSE, FALSE)

(* Lines 641-656. *)
MdrunValidate(a) ==
    LET NODES == DGet(a, "SBATCH_nodes").s
        parts == SplitAt(NODES, "-")
        mpi == DGet(a, "GMX_MPI_EXE")
    IN  IF IsNegative(DGet(a, "NRESUBMITS").s) THEN Raised("ValueError", "")
        ELSE IF Len(parts) \notin {1, 2} THEN Raised("ValueError", "")
        ELSE IF ~IsIntLiteral(Strip(parts[1]))
                \/ ~IsIntLiteral(Strip(parts[Len(parts)]))
        THEN Raised("ValueError", "")
        ELSE IF StrToNat(Strip(parts[Len(parts)])) > 1
                /\ (mpi = PyNone \/ mpi = PyInt(0))
        THEN Raised("ValueError", "")
        ELSE [err |-> "", file |-> ""]

(* Lines 661-685. *)
MdrunCheckFiles(a, miss) ==
    LET pattern == DGet(a, "SETTINGS").s \o "_" \o DGet(a, "SYSTEM").s
        new == DGet(a, "CONTINUE") \in {PyInt(0), PyInt(2)}
        files == IF new
                 THEN <<pattern \o ".mdp", DGet(a, "STRUCTURE").s,
                        DGet(a, "SYSTEM").s \o ".top">>
                 ELSE <<pattern \o ".mdp", pattern \o ".tpr",
                        DGet(a, "SETTINGS").s \o "_out_"
                        \o DGet(a, "SYSTEM").s \o ".cpt">>
        absent == {i \in 1..3 : files[i] \in miss}
    IN  IF new /\ DGet(a, "STRUCTURE") \in {PyNone, PyInt(0)}
        THEN Raised("ValueError", "")
        ELSE IF absent # {}
        THEN Raised("FileNotFoundError",
                    files[CHOOSE i \in absent : \A j \in absent : i <= j])
        ELSE [err |-> "", file |-> ""]

(* Lines 698-708: "sbatch" and the options whose dest starts with SBATCH_. *)
RECURSIVE SbatchOptions(_)
SbatchOptions(a) ==
    IF a = <<>> THEN ""
    ELSE (IF StartsWith(a[1].k, "SBATCH_") /\ a[1].v # PyNone
          THEN " --" \o SubSeq(a[1].k, Len("SBATCH_") + 1, Len(a[1].k))
               \o " " \o a[1].v.s
          ELSE "")
         \o SbatchOptions(Tail(a))

(* Lines 775-783: an option of --sbatch that the string sbatch contains. *)
AlreadySet(sb_options, sbatch_str) ==
    LET given == shlex_split(sb_options)
    IN  \E i \in 1..Len(given) :
            /\ StartsWith(given[i], "-")
            /\ Contains(sbatch_str,
                        IF Contains(given[i], "=")
                        THEN SplitAt(given[i], "=")[1] ELSE given[i])

(* Lines 696-784: "Constructing the submit command...". *)
MdrunSbatch(a) ==
    LET flag(dest) == DGet(a, dest) = PyTrue
        mpi == DGet(a, "GMX_MPI_EXE") \notin {PyNone, PyInt(0)}
        threads == flag("NO_GUESS_THREADS") \/ mpi
        job_name == " --job-name " \o DGet(a, "SETTINGS").s \o "_"
                    \o DGet(a, "SYSTEM").s
        output == " --output " \o DGet(a, "SETTINGS").s \o "_out_"
                  \o DGet(a, "SYSTEM").s \o "_slurm-%j.out"
        base == "sbatch" \o SbatchOptions(a)
        sb == DGet(a, "SB_OPTIONS").s
        in(sub) == Contains(sb, sub)
        plain == base \o job_name \o output
                 \o (IF ~flag("NON_EXCLUSIVE") THEN " --exclusive" ELSE "")
                 \o (IF flag("REQUEUE") THEN " --requeue" ELSE " --no-requeue")
        s1 == base
              \o (IF ~in("--job-name") /\ ~in("-J ") /\ ~in("-J=")
                  THEN job_name ELSE "")
              \o (IF ~in("--output") /\ ~in("-o ") /\ ~in("-o=")
                  THEN output ELSE "")
              \o (IF ~flag("NON_EXCLUSIVE") /\ ~in("--exclusive")
                  THEN " --exclusive" ELSE "")
              \o (IF flag("REQUEUE") /\ ~in("--requeue") THEN " --requeue"
                  ELSE IF ~flag("REQUEUE") /\ ~in("--no-requeue")
                  THEN " --no-requeue" ELSE "")
        conflict ==
            \/ flag("NON_EXCLUSIVE") /\ in("--exclusive")
            \/ flag("REQUEUE") /\ in("--requeue") /\ in("--no-requeue")
            \/ ~flag("REQUEUE") /\ in("--no-requeue") /\ in("--requeue")
    IN  IF DGet(a, "SB_OPTIONS") \in {PyNone, PyStr("")}
        THEN IF threads THEN Raised("ValueError", "")
             ELSE [err |-> "", file |-> "", sbatch |-> plain]
        ELSE IF conflict THEN Raised("ValueError", "")
        ELSE IF threads /\ ~in("--ntasks-per-node") THEN Raised("ValueError", "")
        ELSE IF in("--signal") THEN Raised("ValueError", "")
        ELSE IF AlreadySet(sb, s1) THEN Raised("ValueError", "")
        ELSE [err |-> "", file |-> "", sbatch |-> s1 \o " " \o sb]

(* args["settings"]: argparse.Namespace has no __getitem__. *)
NamespaceItem(a, key) == Raised("TypeError", "")

(* rm_option(cmd, option) of submit_gmx_mdrun.py for one option string:    *)
(* the tokens at the positions found before the loop are popped one after  *)
(* the other, each with the token that then stands at its position unless  *)
(* it contains "=".                                                        *)
RECURSIVE RmPop(_, _)
RmPop(cmd_list, opt_ix) ==
    LET ix == Head(opt_ix)
        without(l, i) == SubSeq(l, 1, i - 1) \o SubSeq(l, i + 1, Len(l))
        l1 == without(cmd_list, ix)
    IN  IF opt_ix = <<>> THEN [err |-> "", list |-> cmd_list]
        ELSE IF ix > Len(cmd_list) THEN [err |-> "IndexError", list |-> <<>>]
        ELSE IF Contains(cmd_list[ix], "=") THEN RmPop(l1, Tail(opt_ix))
        ELSE IF ix > Len(l1) THEN [err |-> "IndexError", list |-> <<>>]
        ELSE RmPop(without(l1, ix), Tail(opt_ix))

RECURSIVE rm_option(_, _)
rm_option(cmd, option) ==
    IF option = <<>> THEN [err |-> "", cmd |-> cmd]
    ELSE LET cmd_list == shlex_split(cmd)
             opt_ix == SelectSeq([i \in 1..Len(cmd_list) |-> i],
                           LAMBDA i : StartsWith(cmd_list[i], Strip(Head(option))))
             popped == RmPop(cmd_list, opt_ix)
         IN  IF ~Contains(cmd, Head(option)) THEN rm_option(cmd, Tail(option))
             ELSE IF popped.err # "" THEN [err |-> popped.err, cmd |-> cmd]
             ELSE rm_option(JoinWith(popped.list, " "), Tail(option))

(* Lines 810-845 for sbatch calls that all print a job ID: the calls the   *)
(* script makes once nsteps is known.                                      *)
MdrunCalls(a, sbatch_str, nsteps) ==
    LET bit(dest) == IF DGet(a, dest) = PyTrue THEN "0" ELSE "1"
        batch_script == "/hpcss/simulation/gmx/./gmx_mdrun.sh"
        pos_args_list ==
            <<"/hpcss/simulation/gmx/./../../bash", DGet(a, "SYSTEM").s,
              DGet(a, "SETTINGS").s, DGet(a, "STRUCTURE").s,
              DGet(a, "CONTINUE").s, nsteps, bit("NO_BACKUP"),
              "/hpcss/simulation/gmx/./../../lmod/" \o DGet(a, "GMX_LMOD").s,
              DGet(a, "GMX_EXE").s, DGet(a, "GMX_MPI_EXE").s,
              bit("NO_GUESS_THREADS"),
              "'" \o DGet(a, "GMX_MDRUN_FLAGS").s \o "'",
              "'" \o DGet(a, "GMX_GROMPP_FLAGS").s \o "'">>
        call(prefix, pos, n) ==
            [cmd |-> shlex_split(prefix \o " " \o batch_script \o " "
                                 \o JoinWith(pos, " ")),
             out |-> SbatchStdout(n),
             job |-> Job("gmx_mdrun", "", "job_id", 0, "")]
        stripped == rm_option(sbatch_str, <<"--dependency", "-d">>)
        resubmit(k) ==
            call(stripped.cmd \o " --dependency afterok:"
                 \o ToString(extract_ints_from_str(SbatchStdout(k))[1]),
                 [pos_args_list EXCEPT ![5] = "3"], k + 1)
    IN  IF DGet(a, "CONTINUE") \notin {PyInt(2), PyInt(3)}
        THEN [err |-> "", calls |-> <<call(sbatch_str, pos_args_list, 1)>>]
        ELSE IF stripped.err # ""
        THEN [err |-> stripped.err,
              calls |-> <<call(sbatch_str, pos_args_list, 1)>>]
        ELSE [err |-> "",
              calls |-> <<call(sbatch_str, pos_args_list, 1)>>
                        \o [k \in 1..StrToNat(DGet(a, "NRESUBMITS").s) |->
                               resubmit(k)]]

(* The command lines of the bounded runs. *)
MdrunArgvs ==
    {<<"--system", "sys", "--settings", "set", "--continue", c>>
     \o structure \o nresubmits \o requeue \o sb :
        c \in {"0", "1", "2", "3"},
        structure \in {<<>>, <<"--structure", "conf.gro">>},
        nresubmits \in {<<"--nresubmits", n>> :
                           n \in {"0", ToString(MaxResubmits), "-1"}},
        requeue \in {<<>>, <<"--requeue">>},
        sb \in {<<>>} \cup {<<"--sbatch=" \o o>> :
                   o \in {"--dependency afterok:5", "--requeue",
                          "--no-requeue", "--nodes=2", "--signal=USR1",
                          "-d afterok:5", "-n 4"}}}

MdrunFileNames ==
    {"set_sys.mdp", "conf.gro", "sys.top", "set_sys.tpr", "set_out_sys.cpt"}

InitMdrun ==
    /\ argv \in MdrunArgvs
    /\ missing \in {m \in SUBSET MdrunFileNames : Cardinality(m) <= MaxMissing}
    /\ secs_known = <<>>
    /\ secs_unknown = <<>>
    /\ unknown_is_none = FALSE
    /\ ignore_unknown_opts = TRUE
    /\ config = [sec \in {} |-> <<>>]
    /\ go_pc = "idle"
    /\ go_err = ""
    /\ options = <<>>
    /\ parser_defaults = <<>>
    /\ args_known = <<>>
    /\ args_unknown = <<>>
    /\ family = "mdrun"
    /\ pc = "start"
    /\ err = ""
    /\ errmsg = ""
    /\ args = <<>>
    /\ args_sbatch = <<>>
    /\ bin_edges = <<>>
    /\ nbins = PyNone
    /\ todo = <<>>
    /\ job_ids = <<>>
    /\ calls = <<>>
    /\ n_scripts_submitted = 0
    /\ sbatch = ""
    /\ warned = <<>>
    /\ NoCall

(* A section of submit_gmx_mdrun.py that changes pc and nothing else, or   *)
(* raises.                                                                 *)
MdrunStep(from, to, r) ==
    /\ pc = from
    /\ family = "mdrun"
    /\ IF r.err # "" THEN Raise(r) ELSE pc' = to /\ UNCHANGED <<err, errmsg>>

(* Line 640: args = parser.parse_args() *)
MdrunParseArgs ==
    /\ LET r == parse_args(MdrunParser, argv)
       IN  /\ MdrunStep("start", "validate",
                        IF r.err # "" THEN Raised("SystemExit", "")
                        ELSE Raised("", ""))
           /\ args' = IF r.err = "" THEN r.ns ELSE args
    /\ UNCHANGED <<optsVars, pureVars, warned, family, missing,
                   args_sbatch, bin_edges, nbins,
                   todo, job_ids, calls, n_scripts_submitted, sbatch>>

(* Lines 641-656. *)
MdrunValidateArgs ==
    /\ MdrunStep("validate", "files", MdrunValidate(args))
    /\ UNCHANGED <<optsVars, pureVars, warned, family, missing, args, args_sbatch,
                   bin_edges,
                   nbins, todo, job_ids, calls, n_scripts_submitted, sbatch>>

(* "Checking if input files exist...".  The working directory holds no     *)
(* .ndx file, so the warning of lines 686-694 is not issued.               *)
MdrunCheckInputFiles ==
    /\ MdrunStep("files", "command", MdrunCheckFiles(args, missing))
    /\ UNCHANGED <<optsVars, pureVars, warned, family, missing, args, args_sbatch,
                   bin_edges,
                   nbins, todo, job_ids, calls, n_scripts_submitted, sbatch>>

(* "Constructing the submit command...", lines 696-784. *)
MdrunConstructCommand ==
    /\ LET r == MdrunSbatch(args)
       IN  /\ MdrunStep("command", "submit", r)
           /\ sbatch' = IF r.err = "" THEN r.sbatch ELSE sbatch
    /\ UNCHANGED <<optsVars, pureVars, warned, family, missing, args, args_sbatch,
                   bin_edges,
                   nbins, todo, job_ids, calls, n_scripts_submitted>>

(* Lines 785-847: the positional arguments and "Submitting job(s) to       *)
(* Slurm...".  The number of steps is read from the .mdp file whose name   *)
(* line 808 builds from args["settings"] and args["system"].               *)
MdrunSubmit ==
    /\ LET name == NamespaceItem(args, "settings")
           r == MdrunCalls(args, sbatch, "5000")
       IN  IF name.err # ""
           THEN MdrunStep("submit", "done", name) /\ UNCHANGED calls
           ELSE /\ MdrunStep("submit", "done", r)
                /\ calls' = r.calls
    /\ UNCHANGED <<optsVars, pureVars, warned, family, missing, args, args_sbatch,
                   bin_edges,
                   nbins, todo, job_ids, n_scripts_submitted, sbatch>>

NextMdrun ==
    \/ MdrunParseArgs
    \/ MdrunValidateArgs
    \/ MdrunCheckInputFiles
    \/ MdrunConstructCommand
    \/ MdrunSubmit

SpecMdrun == InitMdrun /\ [][NextMdrun]_vars
(***************************************************************************)
(* opthandler.rm_option(cmd, option).  A single option string is the tuple *)
(* of length one.  The positions found before the loop are popped from the *)
(* last one to the first one (line 1197).                                  *)
(***************************************************************************)
Reversed(q) == [i \in 1..Len(q) |-> q[Len(q) + 1 - i]]

RECURSIVE opthandler_rm_option(_, _)
opthandler_rm_option(cmd, option) ==
    IF option = <<>> THEN [err |-> "", cmd |-> cmd]
    ELSE LET cmd_list == shlex_split(cmd)
             opt_ix == SelectSeq([i \in 1..Len(cmd_list) |-> i],
                           LAMBDA i : StartsWith(cmd_list[i], Strip(Head(option))))
             popped == RmPop(cmd_list, Reversed(opt_ix))
         IN  IF ~Contains(cmd, Head(option))
             THEN opthandler_rm_option(cmd, Tail(option))
             ELSE IF popped.err # "" THEN [err |-> popped.err, cmd |-> cmd]
             ELSE opthandler_rm_option(JoinWith(popped.list, " "), Tail(option))

(***************************************************************************)
(* python/gmx.py: tail(fname, n).  A file is the sequence of its bytes:    *)
(* "a" is a character of one byte, "nl" the newline, and "lead", "cont"    *)
(* are the two bytes of one character of the encoding (UTF-8).  A line is  *)
(* the sequence of the bytes of its characters.                            *)
(***************************************************************************)
RECURSIVE SplitLines(_, _)
SplitLines(bytes, cur) ==
    IF bytes = <<>> THEN (IF cur = <<>> THEN <<>> ELSE <<cur>>)
    ELSE IF Head(bytes) = "nl"
    THEN <<Append(cur, "nl")>> \o SplitLines(Tail(bytes), <<>>)
    ELSE SplitLines(Tail(bytes), Append(cur, Head(bytes)))

(* file.seek(pos, 0); file.readlines() on a file opened in text mode: the  *)
(* decoder starts at byte pos.  Python leaves a seek to an offset that     *)
(* tell() did not return undefined; the interpreter decodes from that      *)
(* byte on, and the decoder rejects a continuation byte at the start.      *)
readlines(file, pos) ==
    IF pos < Len(file) /\ file[pos + 1] = "cont"
    THEN [err |-> "UnicodeDecodeError", lines |-> <<>>]
    ELSE [err |-> "", lines |-> SplitLines(SubSeq(file, pos + 1, Len(file)), <<>>)]

(* lines[-n:] for n > 0 *)
LastItems(lines, n) ==
    SubSeq(lines, IF Len(lines) > n THEN Len(lines) - n + 1 ELSE 1, Len(lines))

(* tail(fname, n): lines 199-209, up to the loop. *)
TailEnter ==
    /\ called.fn = "tail"
    /\ returned = <<>>
    /\ locals = <<>>
    /\ IF called.arg.n <= 0
       THEN returned' = <<[err |-> "", lines |-> <<>>]>> /\ locals' = locals
       ELSE /\ locals' = <<[step_width |-> IF 10 * called.arg.n > 1
                                          THEN 10 * called.arg.n ELSE 1,
                            pos |-> Len(called.arg.file),
                            lines |-> <<>>,
                            at_start |-> FALSE]>>
            /\ returned' = returned
    /\ UNCHANGED <<optsVars, scriptVars, called>>

(* One pass of the loop of lines 212-217. *)
TailSeek ==
    /\ called.fn = "tail"
    /\ returned = <<>>
    /\ locals # <<>>
    /\ Len(locals[1].lines) < called.arg.n + 1
    /\ ~locals[1].at_start
    /\ LET l == locals[1]
           pos == l.pos - (IF l.step_width < l.pos THEN l.step_width ELSE l.pos)
           read(r) ==
               IF r.err # ""
               THEN returned' = <<[err |-> r.err, lines |-> <<>>]>>
                    /\ locals' = locals
               ELSE locals' = <<[l EXCEPT !.pos = pos, !.lines = r.lines,
                                          !.at_start = (pos = 0)]>>
                    /\ returned' = returned
       IN  read(readlines(called.arg.file, pos))
    /\ UNCHANGED <<optsVars, scriptVars, called>>

(* Line 218: return lines[-n:] *)
TailReturn ==
    /\ called.fn = "tail"
    /\ returned = <<>>
    /\ locals # <<>>
    /\ Len(locals[1].lines) >= called.arg.n + 1 \/ locals[1].at_start
    /\ returned' = <<[err |-> "", lines |-> LastItems(locals[1].lines, called.arg.n)]>>
    /\ UNCHANGED <<optsVars, scriptVars, called, locals>>

(***************************************************************************)
(* python/strng.py: extract_ints_from_str(s) for a str s given as the      *)
(* tuple of its characters.  "sup2" is the character SUPERSCRIPT TWO, a    *)
(* digit for str.isdigit that int() does not accept.                       *)
(***************************************************************************)
IsSpaceChar(c) == c \in {" ", "tab", "nl"}

(* s.split() *)
RECURSIVE str_split(_, _)
str_split(s, cur) ==
    IF s = <<>> THEN (IF cur = <<>> THEN <<>> ELSE <<cur>>)
    ELSE IF IsSpaceChar(Head(s))
    THEN (IF cur = <<>> THEN <<>> ELSE <<cur>>) \o str_split(Tail(s), <<>>)
    ELSE str_split(Tail(s), Append(cur, Head(s)))

(* i.isdigit() *)
str_isdigit(i) ==
    i # <<>> /\ \A k \in 1..Len(i) : IsDigitChar(i[k]) \/ i[k] = "sup2"

RECURSIVE NatOfDigits(_)
NatOfDigits(i) ==
    IF i = <<>> THEN 0
    ELSE 10 * NatOfDigits(SubSeq(i, 1, Len(i) - 1)) + DigitVal(i[Len(i)])

(* int(i) for a token that passed isdigit() *)
int(i) ==
    IF \A k \in 1..Len(i) : IsDigitChar(i[k])
    THEN [err |-> "", value |-> NatOfDigits(i)]
    ELSE [err |-> "ValueError", value |-> 0]

(* Line 37: [int(i) for i in s.split() if i.isdigit()] *)
extract_ints_from_text(s) ==
    LET digits == SelectSeq(str_split(s, <<>>), str_isdigit)
        ints == [k \in 1..Len(digits) |-> int(digits[k])]
    IN  IF \E k \in 1..Len(ints) : ints[k].err # ""
        THEN [err |-> "ValueError", ints |-> <<>>]
        ELSE [err |-> "", ints |-> [k \in 1..Len(ints) |-> ints[k].value]]

(***************************************************************************)
(* Direct calls of convert_str, optlist2dict and rm_option, outside of any  *)
(* script.                                                                 *)
(***************************************************************************)
MaxTokens == 3

(* str(v) of the values of the doctests, and strings around them: blanks,  *)
(* capitals, signs, leading zeros, the words of the extended modes, and    *)
(* strings that are neither a keyword nor a number.                        *)
ConvertStrInputs ==
    {"None", "True", "False", "0", "1", "123", "123.456",
     "none", " NONE ", "true", "tRuE ", "false", " FALSE",
     " 0", "1 ", "-5", "+5", "007", " 42 ", "-0",
     "1.50", "-0.5", ".5", "5.", "0.0", "00.10", "inf", "-inf", "nan",
     "yes", "Yes", "no", "No", "on", "ON", "off", " Off ",
     "", " ", "a123", "12a", " a123", "A sTrInG", " A sTrInG ",
     "1.2.3", "--5", "1,5", "-", "+", ".", "- 5", "1 2", "0x1F",
     "None.", "Truee", "not", "t", "f", "null"}

(* Flags with one and two hyphens, values, bare hyphens, the empty token,  *)
(* and tokens with blanks around them.  No token has a blank right after   *)
(* its hyphens.                                                            *)
Tokens == {"-a", "--b", " -a ", "--", "x", " y ", "1", ""}

OptLists == {<<>>} \cup UNION {[1..n -> Tokens] : n \in 1..MaxTokens}

(* Options with and without "=", with a value and without one, next to     *)
(* each other and apart, and a quoted value.                               *)
RmTokens == {"-d", "-d=5", "--dependency", "afterok:12", "-n", "2", "'a b'"}

RmCommands ==
    {JoinWith(toks, " ") :
        toks \in {<<>>} \cup UNION {[1..n -> RmTokens] : n \in 1..MaxTokens}}
    \cup {"--job-name=Test -o out.log --dependency afterok:12 -c 4",
          "--job-name=Test -o out.log -d=afterok:12 -c 4",
          "-o out.log --dependency afterok:12 -d afterok:14 -c 4",
          "-o out.log -d afterok:12 -n 2 -d afterok:14 -c 4"}

RmOptions == {<<"-d">>, <<"--dependency">>, <<"--dep">>, <<"--dependency", "-d">>}

MaxLines == 3

(* The lines a file is made of: empty, short, long, and one that starts    *)
(* with a character of two bytes.                                          *)
TailLines == {<<>>, <<"a">>, <<"a", "a", "a", "a", "a", "a", "a", "a">>,
              <<"lead", "cont", "lead", "cont", "a">>}

RECURSIVE FileOfLines(_)
FileOfLines(ls) ==
    IF ls = <<>> THEN <<>> ELSE Head(ls) \o <<"nl">> \o FileOfLines(Tail(ls))

(* Files of up to MaxLines lines, the last one with or without a newline. *)
TailFiles ==
    LET lists == {<<>>} \cup UNION {[1..k -> TailLines] : k \in 1..MaxLines}
    IN  {FileOfLines(ls) : ls \in lists}
        \cup {FileOfLines(ls) \o <<"a">> : ls \in lists}

TailCounts == {0 - 1, 0, 1, 2, 3}

MaxChars == 4

(* Digits, a sign, a decimal point, a letter, blanks, and a digit that is  *)
(* no decimal digit.                                                       *)
TextChars == {"0", "1", "2", "-", ".", "a", " ", "sup2"}

Texts == {<<>>} \cup UNION {[1..k -> TextChars] : k \in 1..MaxChars}

(* Option names that differ in case or in hyphen and underscore only. *)
CheckedNames == {"foo-bar", "Foo-Bar", "foo_bar", "x"}

NameLists(names) ==
    {<<>>} \cup {<<a>> : a \in names}
    \cup {<<a, b>> : a, b \in names}

(* Parsers of both kinds with one or two sections.  A parser does not read *)
(* a section that holds an option twice.                                   *)
CheckedConfigs ==
    LET all ==
            {[optionxform |-> xform, secs |-> secs] :
                xform \in {"lower", "str"},
                secs \in {[sec \in {"s"} |-> [i \in 1..Len(l) |-> Item(l[i], "1")]] :
                             l \in NameLists(CheckedNames)}
                         \cup {[sec \in {"s", "t"} |->
                                   IF sec = "s" THEN <<Item(a, "1")>>
                                   ELSE <<Item("Foo-Bar", "1")>>] :
                                   a \in CheckedNames}}
    IN  {c \in all : \A sec \in DOMAIN c.secs :
                         Cardinality(config_options(c, sec)) = Len(c.secs[sec])}

InitPure ==
    /\ \/ \E s \in ConvertStrInputs :
              called = [fn |-> "convert_str", arg |-> s]
       \/ \E optlist \in OptLists, convert \in BOOLEAN :
              called = [fn |-> "optlist2dict",
                        arg |-> [optlist |-> optlist, convert |-> convert]]
       \/ \E cmd \in RmCommands, option \in RmOptions :
              called = [fn |-> "opthandler.rm_option",
                        arg |-> [cmd |-> cmd, option |-> option]]
       \/ \E cmd \in RmCommands, option \in RmOptions :
              called = [fn |-> "submit_gmx_mdrun.rm_option",
                        arg |-> [cmd |-> cmd, option |-> option]]
       \/ \E file \in TailFiles, n \in TailCounts :
              called = [fn |-> "tail", arg |-> [file |-> file, n |-> n]]
       \/ \E s \in Texts :
              called = [fn |-> "extract_ints_from_str", arg |-> s]
       \/ \E parser \in CheckedConfigs,
             known_options \in NameLists(CheckedNames \cup {"FOO-BAR"}),
             case_sensitive, hyphens_are_underscores \in BOOLEAN :
              called = [fn |-> "configparser_check_options",
                        arg |-> [config |-> parser,
                                 known_options |-> known_options,
                                 case_sensitive |-> case_sensitive,
                                 hyphens_are_underscores |->
                                     hyphens_are_underscores]]
    /\ returned = <<>>
    /\ locals = <<>>
    /\ secs_known = <<>>
    /\ secs_unknown = <<>>
    /\ unknown_is_none = FALSE
    /\ ignore_unknown_opts = TRUE
    /\ config = [sec \in {} |-> <<>>]
    /\ argv = <<>>
    /\ go_pc = "idle"
    /\ go_err = ""
    /\ options = <<>>
    /\ parser_defaults = <<>>
    /\ args_known = <<>>
    /\ args_unknown = <<>>
    /\ NoScript

(* convert_str(s) returns. *)
CallConvertStr ==
    /\ called.fn = "convert_str"
    /\ returned = <<>>
    /\ returned' = <<convert_str(called.arg)>>
    /\ UNCHANGED <<optsVars, scriptVars, called, locals>>

(* optlist2dict(optlist, convert) returns. *)
CallOptlist2dict ==
    /\ called.fn = "optlist2dict"
    /\ returned = <<>>
    /\ returned' = <<IF called.arg.convert
                     THEN optlist2dict(called.arg.optlist)
                     ELSE optlist2dict_str(called.arg.optlist)>>
    /\ UNCHANGED <<optsVars, scriptVars, called, locals>>

(* opthandler.rm_option(cmd, option) returns or raises. *)
CallRmOption ==
    /\ called.fn = "opthandler.rm_option"
    /\ returned = <<>>
    /\ returned' = <<opthandler_rm_option(called.arg.cmd, called.arg.option)>>
    /\ UNCHANGED <<optsVars, scriptVars, called, locals>>

(* rm_option(cmd, option) of submit_gmx_mdrun.py returns or raises. *)
CallMdrunRmOption ==
    /\ called.fn = "submit_gmx_mdrun.rm_option"
    /\ returned = <<>>
    /\ returned' = <<rm_option(called.arg.cmd, called.arg.option)>>
    /\ UNCHANGED <<optsVars, scriptVars, called, locals>>

(* extract_ints_from_str(s) returns or raises. *)
CallExtractInts ==
    /\ called.fn = "extract_ints_from_str"
    /\ returned = <<>>
    /\ returned' = <<extract_ints_from_text(called.arg)>>
    /\ UNCHANGED <<optsVars, scriptVars, called, locals>>

(* configparser_check_options(...) returns or raises. *)
CallCheckOptions ==
    /\ called.fn = "configparser_check_options"
    /\ returned = <<>>
    /\ returned' = <<configparser_check_options(
                         called.arg.config, called.arg.known_options,
                         called.arg.case_sensitive,
                         called.arg.hyphens_are_underscores)>>
    /\ UNCHANGED <<optsVars, scriptVars, called, locals>>

NextPure ==
    \/ CallConvertStr
    \/ CallOptlist2dict
    \/ CallRmOption
    \/ CallMdrunRmOption
    \/ TailEnter
    \/ TailSeek
    \/ TailReturn
    \/ CallExtractInts
    \/ CallCheckOptions

SpecPure == InitPure /\ [][NextPure]_vars

(***************************************************************************)
(* Properties of get_opts.                                                 *)
(***************************************************************************)
MaxOf(S) == CHOOSE m \in S : \A n \in S : n <= m

(* Positions of the listed sections that set option opt in the config file. *)
ListedWith(secs, opt) ==
    {i \in 1..Len(secs) : has_section(config, secs[i]) /\ DHas(config[secs[i]], opt)}

ConfigOptNames == UNION {DKeys(config[sec]) : sec \in DOMAIN config}

MergedHere == go_pc \in {"merged", "defaults", "parsed", "validated"}

(* C1: once the config sections are merged, an option set in several       *)
(* listed sections carries the value of the section listed last among      *)
(* them, in the known list and in the unknown list alike.                  *)
C1_LaterSectionWins ==
    MergedHere =>
        \A opt \in ConfigOptNames :
            /\ ListedWith(secs_known, opt) # {} =>
                   DGet(options[secs_known[1]], ReplaceChar(opt, "-", "_"))
                   = convert_str(DGet(config[secs_known[MaxOf(ListedWith(secs_known, opt))]], opt))
            /\ ListedWith(secs_unknown, opt) # {} =>
                   DGet(options[secs_unknown[1]], opt)
                   = convert_str(DGet(config[secs_unknown[MaxOf(ListedWith(secs_unknown, opt))]], opt))

(* The same with at most two sections per list, where the last section is  *)
(* also the second one.                                                    *)
C1_TwoSections ==
    (MergedHere /\ Len(secs_known) <= 2 /\ Len(secs_unknown) <= 2) => C1_LaterSectionWins

(* The flag of option a is on the command line, alone or as flag=value. *)
CliPositions(a) ==
    {i \in 1..Len(argv) : argv[i] = a.flag \/ StartsWith(argv[i], a.flag \o "=")}

CliValue(a) ==
    LET i == MaxOf(CliPositions(a))
    IN  IF a.action = "store_true" THEN PyTrue
        ELSE IF argv[i] = a.flag THEN TypeConv(a.type, argv[i + 1])
        ELSE TypeConv(a.type, SubSeq(argv[i], Len(a.flag) + 2, Len(argv[i])))

KnownConfig == MergedConfig(config, secs_known, secs_unknown)[secs_known[1]]

(* C2: in the returned known dictionary every option the parser declares   *)
(* has the command-line value if its flag was given, else the merged       *)
(* config value if a known section sets it, else the declared default.     *)
C2_ThreeLayerPrecedence ==
    go_pc = "done" =>
        \A i \in 1..Len(GmxParser) :
            LET a == GmxParser[i]
            IN  DGet(options[secs_known[1]], a.dest)
                = IF CliPositions(a) # {} THEN CliValue(a)
                  ELSE IF DHas(KnownConfig, a.dest) THEN DGet(KnownConfig, a.dest)
                  ELSE a.default

(* A finished call in which one option comes from the command line, one    *)
(* from the config file and one from the parser default.                   *)
C2_Witness ==
    /\ go_pc = "done"
    /\ CliPositions(ActionOf(GmxParser, "zmin")) # {}
    /\ DHas(KnownConfig, "zmin")
    /\ DGet(options[secs_known[1]], "zmin") = PyFloat("7.0")
    /\ DGet(options[secs_known[1]], "gmx_exe") = PyStr("gmx_mpi")
    /\ DGet(options[secs_known[1]], "binwidth") = PyFloat("0.005")

(* C9: the two returned dictionaries have no key in common, and together   *)
(* they hold every option of the listed config sections and every option   *)
(* of the command line.                                                    *)
C9_DisjointNamespaces ==
    go_pc = "done" =>
        LET known == DKeys(options[secs_known[1]])
            unknown == DKeys(options[secs_unknown[1]])
        IN  /\ known \cap unknown = {}
            /\ \A opt \in ConfigOptNames :
                   /\ ListedWith(secs_known, opt) # {} => ReplaceChar(opt, "-", "_") \in known
                   /\ ListedWith(secs_unknown, opt) # {} => opt \in unknown
            /\ \A i \in 1..Len(argv) :
                   StartsWith(argv[i], "--") =>
                       LET eq == EqualsAt(argv[i])
                           name == LStrip(IF eq > 0 THEN SubSeq(argv[i], 1, eq - 1)
                                          ELSE argv[i], "-")
                       IN  ReplaceChar(name, "-", "_") \in known \/ name \in unknown

(* Some pair of positions of the section lists names the same section. *)
ListsInvalid ==
    \/ \E i, j \in 1..Len(secs_known) : i < j /\ secs_known[i] = secs_known[j]
    \/ \E i, j \in 1..Len(secs_unknown) : i < j /\ secs_unknown[i] = secs_unknown[j]
    \/ \E i \in 1..Len(secs_known) : \E j \in 1..Len(secs_unknown) :
           secs_known[i] = secs_unknown[j]

(* C10: with a duplicate in either list or a section in both lists, the    *)
(* call ends with ValueError while the parser still holds its declared     *)
(* defaults and nothing of the command line has been parsed.               *)
C10_InvalidListsRejected ==
    (ListsInvalid /\ go_pc # "start") =>
        /\ go_pc = "error"
        /\ go_err = "ValueError"
        /\ parser_defaults = DeclaredDefaults(GmxParser)
        /\ args_known = <<>>
        /\ args_unknown = <<>>
        /\ options = <<>>

(* A rejected call whose lists share a section, and one with a duplicate. *)
C10_Witness ==
    /\ go_pc = "error"
    /\ go_err = "ValueError"
    /\ secs_unknown = <<"submit">>
    /\ secs_known = <<"submit.analysis", "submit">>

(***************************************************************************)
(* Properties of get_opts that depend on its keyword arguments.            *)
(***************************************************************************)
(* C11: a call with secs_unknown=None does not end with TypeError, and     *)
(* when it returns, the result holds the unknown command-line options      *)
(* under the key "unknown" and the known options under the first known     *)
(* section.                                                                *)
C11_NoUnknownSections ==
    unknown_is_none =>
        /\ go_err # "TypeError"
        /\ go_pc = "done" =>
               /\ "unknown" \in DOMAIN options
               /\ options["unknown"] = args_unknown
               /\ options[secs_known[1]] = args_known

(* Options of the listed known sections that the parser does not declare. *)
UndeclaredConfigOpts ==
    {opt \in UNION {DKeys(config[secs_known[i]]) :
                       i \in {j \in 1..Len(secs_known) :
                                 has_section(config, secs_known[j])}} :
        \A i \in 1..Len(Parser) : Parser[i].dest # ReplaceChar(opt, "-", "_")}

(* C12: with ignore_unknown_opts false a call whose known sections hold   *)
(* an option the parser does not declare never passes the re-validation;  *)
(* with ignore_unknown_opts true such a call never fails in the           *)
(* re-validation, that is after the first parse has filled args_known.    *)
C12_UndeclaredConfigOptsRejected ==
    UndeclaredConfigOpts # {} =>
        IF ignore_unknown_opts
        THEN ~(go_pc = "error" /\ go_err = "SystemExit" /\ args_known # <<>>)
        ELSE go_pc \notin {"validated", "done"}

(***************************************************************************)
(* Properties of the analysis submit scripts.                              *)
(***************************************************************************)
EndsWith(s, e) == Len(s) >= Len(e) /\ SubSeq(s, Len(s) - Len(e) + 1, Len(s)) = e

(* The job script a command submits: its first token that ends in ".sh".   *)
ScriptOfCmd(cmd) ==
    LET i == CHOOSE i \in 1..Len(cmd) :
                 /\ EndsWith(cmd[i], ".sh")
                 /\ \A j \in 1..(i - 1) : ~EndsWith(cmd[j], ".sh")
    IN  SubSeq(cmd[i], 1, Len(cmd[i]) - 3)

(* The command carries "--dependency afterok:<id>". *)
DependsOn(cmd, id) ==
    \E i \in 1..(Len(cmd) - 1) :
        cmd[i] = "--dependency" /\ cmd[i + 1] = "afterok:" \o ToString(id)

(* The job ID in the output of the k-th call. *)
JobIdPrinted(k) == extract_ints_from_str(calls[k].out)[1]

(* The calls of the block for categories 0 and 1, in order. *)
ChainCalls == SelectSeq([i \in 1..Len(calls) |-> i],
                        LAMBDA i : calls[i].job.block = "0")

(* What the k-th call of the chain has to look like in the Gromacs script. *)
GmxChainCallOk(k) ==
    LET cmd == calls[ChainCalls[k]].cmd
        s == ScriptOfCmd(cmd)
        make_ndx == JobIdPrinted(ChainCalls[1])
        trjconv_whole == JobIdPrinted(ChainCalls[2])
        trjconv_nojump == JobIdPrinted(ChainCalls[3])
    IN  CASE k = 1 -> s = "make_ndx"
          [] k = 2 -> s = "trjconv_whole" /\ DependsOn(cmd, make_ndx)
          [] k = 3 -> s = "trjconv_nojump" /\ DependsOn(cmd, trjconv_whole)
          [] OTHER ->
               /\ s \notin {"make_ndx", "trjconv_whole", "trjconv_nojump"}
               /\ s \in GMX_REQUIRE_XTC_UNWRAPPED
                      => DependsOn(cmd, trjconv_nojump)
               /\ s \in GMX_REQUIRE_XTC_WRAPPED \ GMX_REQUIRE_XTC_UNWRAPPED
                      => /\ DependsOn(cmd, trjconv_whole)
                         /\ ~DependsOn(cmd, make_ndx)
               /\ s \in GMX_REQUIRE_NDX
                          \ (GMX_REQUIRE_XTC_WRAPPED
                             \cup GMX_REQUIRE_XTC_UNWRAPPED)
                      => DependsOn(cmd, make_ndx)

(* The same for the MDTools script. *)
MdtChainCallOk(k) ==
    LET cmd == calls[ChainCalls[k]].cmd
        s == ScriptOfCmd(cmd)
        mda_universe == JobIdPrinted(ChainCalls[1])
        discrete_z == JobIdPrinted(ChainCalls[2])
        renewal_ether == JobIdPrinted(ChainCalls[3])
        renewal_tfsi == JobIdPrinted(ChainCalls[4])
        renewal == MDT_REQUIRE_DTRJ_RENEWAL_ETHER
                   \cup MDT_REQUIRE_DTRJ_RENEWAL_TFSI
    IN  CASE k = 1 -> s = "create_mda_universe"
          [] k = 2 -> s = "discrete-z_Li" /\ DependsOn(cmd, mda_universe)
          [] k = 3 -> s = "renewal_events_Li-ether"
                      /\ DependsOn(cmd, discrete_z)
          [] k = 4 -> s = "renewal_events_Li-NTf2"
                      /\ DependsOn(cmd, discrete_z)
          [] OTHER ->
               /\ s \in MDT_REQUIRE_DTRJ_RENEWAL_ETHER
                      => DependsOn(cmd, renewal_ether)
               /\ s \in MDT_REQUIRE_DTRJ_RENEWAL_TFSI
                          \ MDT_REQUIRE_DTRJ_RENEWAL_ETHER
                      => DependsOn(cmd, renewal_tfsi)
               /\ s \in MDT_REQUIRE_DTRJ_DISCRETE_Z \ renewal
                      => DependsOn(cmd, discrete_z)
               /\ s \notin MDT_REQUIRE_DTRJ_DISCRETE_Z \cup renewal
                      => DependsOn(cmd, mda_universe)

(* C3: in the chained submission of categories 0 and 1 the producer jobs   *)
(* come first and in order, each depending on the one before as the script *)
(* family prescribes, and every analysis submitted after them carries      *)
(* "--dependency afterok:<id>" with the ID printed by the job that makes   *)
(* the file it needs.                                                      *)
C3_ChainDependencies ==
    \A k \in 1..Len(ChainCalls) :
        IF family = "gmx" THEN GmxChainCallOk(k) ELSE MdtChainCallOk(k)

(* A finished Gromacs chain in which an analysis of the wrapped trajectory *)
(* waits for trjconv_whole and one of the unwrapped trajectory for         *)
(* trjconv_nojump, and a finished MDTools chain is reached likewise.       *)
C3_Witness ==
    /\ pc = "done"
    /\ family = "gmx"
    /\ Len(ChainCalls) > 3
    /\ \E k \in 4..Len(ChainCalls) :
          /\ ScriptOfCmd(calls[ChainCalls[k]].cmd)
                 \in GMX_REQUIRE_XTC_WRAPPED \ GMX_REQUIRE_XTC_UNWRAPPED
          /\ DependsOn(calls[ChainCalls[k]].cmd, JobIdPrinted(ChainCalls[2]))
    /\ \E k \in 4..Len(ChainCalls) :
          /\ ScriptOfCmd(calls[ChainCalls[k]].cmd) \in GMX_REQUIRE_XTC_UNWRAPPED
          /\ DependsOn(calls[ChainCalls[k]].cmd, JobIdPrinted(ChainCalls[3]))

(* The name {settings}_{system}.tpr of the run. *)
TprFile == argv[4] \o "_" \o argv[2] \o ".tpr"

(* C4: when the run-input file {settings}_{system}.tpr is missing, the     *)
(* script makes no sbatch call and ends with a FileNotFoundError that      *)
(* names that file, whatever --scripts selects.                            *)
C4_MissingTprStopsScript ==
    TprFile \in missing =>
        /\ calls = <<>>
        /\ pc # "done"
        /\ pc = "error" => /\ err = "FileNotFoundError"
                           /\ Contains(errmsg, "'" \o TprFile \o "'")

(* The input files the scripts of a token of --scripts take: the ones the  *)
(* file check collects for the token, the .trr file for the MDTools        *)
(* attribute_hist scripts and category 13, the .trr and the .edr file for  *)
(* category 12.                                                            *)
InputsOf(fam, token, f) ==
    LET labels == IF fam = "gmx" THEN <<"run input">> \o GmxRequires(token)
                  ELSE MdtRequires(token)
    IN  {FileOfType(f, labels[i]) : i \in 1..Len(labels)}
        \cup (IF fam = "mdt" /\ (StartsWith(token, "attribute_hist_")
                                 \/ token \in {"12", "13"})
              THEN {f.trr} ELSE {})
        \cup (IF fam = "mdt" /\ token = "12" THEN {f.edr} ELSE {})

(* C5: when an input file of a selected script is missing, the script      *)
(* makes no sbatch call and ends with a FileNotFoundError.                 *)
C5_MissingInputStopsScript ==
    LET tokens == Split(argv[6])
        f == InputFiles(argv[4], argv[2])
    IN  (\E i \in 1..Len(tokens) :
            InputsOf(family, tokens[i], f) \cap missing # {})
        => /\ calls = <<>>
           /\ pc # "done"
           /\ pc = "error" => err = "FileNotFoundError"

Count(cmd, P(_)) == Cardinality({i \in 1..Len(cmd) : P(cmd[i])})

(* C6: the command _submit_discretized issues for a bin names one job      *)
(* script, one --job-name and one --output, and ends in the bounds of that *)
(* bin.                                                                    *)
C6_OneSubmissionPerBin ==
    \A i \in 1..Len(calls) :
        LET cmd == calls[i].cmd
            k == calls[i].job.bin
            prec == ARG_PREC(family)
        IN  k > 0 =>
                /\ Count(cmd, LAMBDA t : EndsWith(t, ".sh")) = 1
                /\ Count(cmd, LAMBDA t : t = "--job-name") = 1
                /\ Count(cmd, LAMBDA t : t = "--output") = 1
                /\ SubSeq(cmd, Len(cmd) - 1, Len(cmd))
                       = posargs2str(<<bin_edges[k], bin_edges[k + 1]>>, prec)

IsDependencyOption(t) ==
    \/ t \in {"--dependency", "-d"}
    \/ StartsWith(t, "--dependency=")
    \/ StartsWith(t, "-d=")
    \/ StartsWith(t, "--d=")

(* C7: a submission the script makes with its own "--dependency            *)
(* afterok:<id>" has no other dependency option on its command line.       *)
C7_OnlyOwnDependency ==
    \A i \in 1..Len(calls) :
        calls[i].job.opts # "args_sbatch" =>
            /\ Count(calls[i].cmd, IsDependencyOption) = 1
            /\ DependsOn(calls[i].cmd,
                         DGet(job_ids, JobIdOf(calls[i].job.opts)))

(* C8: submit_gmx_mdrun.py, once its inputs have passed every check and    *)
(* the sbatch command is constructed, makes one sbatch call, and with      *)
(* --continue 2 or 3 one more per resubmission, each depending on the job  *)
(* of the call before.                                                     *)
C8_ResubmissionChain ==
    (family = "mdrun" /\ pc \in {"done", "error"} /\ sbatch # "") =>
        /\ Len(calls) = IF DGet(args, "CONTINUE") \in {PyInt(2), PyInt(3)}
                        THEN 1 + StrToNat(DGet(args, "NRESUBMITS").s)
                        ELSE 1
        /\ \A k \in 2..Len(calls) : DependsOn(calls[k].cmd, JobIdPrinted(k - 1))

(* The sbatch calls that returned: those with an output. *)
ReturnedCalls == {i \in 1..Len(calls) : calls[i].out # ""}

(* C17: when an analysis submit script ends, n_scripts_submitted is the    *)
(* number of sbatch calls that returned, and a run that submitted nothing  *)
(* has ended normally with one UserWarning.                                *)
C17_SubmissionCount ==
    pc = "done" =>
        /\ n_scripts_submitted = Cardinality(ReturnedCalls)
        /\ err = ""
        /\ warned = IF calls = <<>> THEN <<"UserWarning">> ELSE <<>>

C17_Witness ==
    /\ pc = "done"
    /\ calls = <<>>
    /\ warned = <<"UserWarning">>

(* The sbatch call did not give the script what it needs: sbatch exited    *)
(* with an error, or printed no number where the job ID is taken.          *)
FailedCall(c) ==
    \/ c.out = ""
    \/ c.job.capture # "" /\ extract_ints_from_str(c.out) = <<>>

(* C18: a failed sbatch call is the last call of the run and ends the      *)
(* script with its exception, and the script runs no command but sbatch.   *)
C18_FailureAbortsTheRest ==
    \A i \in 1..Len(calls) :
        /\ calls[i].cmd[1] = "sbatch"
        /\ FailedCall(calls[i]) =>
               /\ i = Len(calls)
               /\ pc = "error"
               /\ err = IF calls[i].out = "" THEN "CalledProcessError"
                        ELSE "IndexError"

C18_Witness ==
    /\ Len(calls) >= 3
    /\ FailedCall(calls[Len(calls)])
    /\ calls[Len(calls)].out # ""
    /\ pc = "error"
(***************************************************************************)
(* Properties of the options handed on to sbatch.                          *)
(***************************************************************************)
(* Positions of the command line that hold an option the parser does not   *)
(* declare, written as a long name followed by its value.                  *)
PassedOnAt ==
    {i \in 1..(Len(argv) - 1) :
        /\ StartsWith(argv[i], "--")
        /\ EqualsAt(argv[i]) = 0
        /\ MatchingOpts(Parser, argv[i]) = {}
        /\ ~StartsWith(argv[i + 1], "--")}

(* Tokens name and value follow each other in the command. *)
HasOption(cmd, name, value) ==
    \E j \in 1..(Len(cmd) - 1) : cmd[j] = name /\ cmd[j + 1] = value

(* C13: every sbatch command holds each option the parser does not        *)
(* declare with the name and the value text it has on the command line.   *)
C13_SchedulerOptionsPassThrough ==
    \A k \in 1..Len(calls) :
        \A i \in PassedOnAt : HasOption(calls[k].cmd, argv[i], argv[i + 1])

IsJobNameOption(t) ==
    \/ t \in {"--job-name", "-J"}
    \/ StartsWith(t, "--job-name=")
    \/ StartsWith(t, "-J=")

IsOutputOption(t) ==
    \/ t \in {"--output", "-o"}
    \/ StartsWith(t, "--output=")
    \/ StartsWith(t, "-o=")

(* The default name of a submission: {settings}_{system}_{script}. *)
DefaultJobName(job) ==
    DGet(args, "settings").s \o "_" \o DGet(args, "system").s
        \o "_" \o job.script

(* C14: every sbatch command holds one job-name option and one output      *)
(* option, and the default of either is in the command exactly if the      *)
(* command line has no such option in any spelling.                        *)
C14_DefaultJobNameAndOutput ==
    \A k \in 1..Len(calls) :
        LET cmd == calls[k].cmd
            name == DefaultJobName(calls[k].job)
        IN  /\ Count(cmd, IsJobNameOption) = 1
            /\ Count(cmd, IsOutputOption) = 1
            /\ HasOption(cmd, "--job-name", name)
                   <=> Count(argv, IsJobNameOption) = 0
            /\ HasOption(cmd, "--output", name \o "_slurm-%j.out")
                   <=> Count(argv, IsOutputOption) = 0

(***************************************************************************)
(* Properties of the slab options.                                         *)
(***************************************************************************)
(* The value that follows the option name on the command line, in          *)
(* thousandths.                                                            *)
GivenMilli(name) ==
    Milli(PyFloat(argv[(CHOOSE i \in 1..Len(argv) : argv[i] = name) + 1]))

(* A run with --discretize alone on the command line and a range that      *)
(* holds at least one slab.                                                *)
DiscretizedRun ==
    /\ "--discretize" \in SeqToSet(argv)
    /\ "--center-slab" \notin SeqToSet(argv)
    /\ DOMAIN config = {}
    /\ "nan" \notin SeqToSet(argv)
    /\ GivenMilli("--slabwidth") > 0
    /\ GivenMilli("--zmax") - GivenMilli("--zmin") >= GivenMilli("--slabwidth")

(* C15: once the arguments of a run with --discretize are processed, the   *)
(* bin edges are zmin, zmin + w, zmin + 2w, ... up to the first edge that  *)
(* is not below zmax: as many bins as the smallest K with                  *)
(* zmin + K*w >= zmax, and no error for a range of at least one width.     *)
C15_BinEdgeSequence ==
    LET zmin == GivenMilli("--zmin")
        zmax == GivenMilli("--zmax")
        w == GivenMilli("--slabwidth")
        K == (zmax - zmin + w - 1) \div w
    IN  (DiscretizedRun /\ pc \notin {"start", "process"}) =>
            /\ err # "ValueError"
            /\ Len(bin_edges) = K + 1
            /\ \A i \in 1..Len(bin_edges) :
                   Milli(bin_edges[i]) = zmin + (i - 1) * w

(* Both slab flags are set in the resolved options. *)
BothSlabFlags ==
    /\ go_pc = "done"
    /\ Truthy(DGet(options[secs_known[1]], "discretize"))
    /\ Truthy(DGet(options[secs_known[1]], "center_slab"))

(* C16: a run in which the resolved options set both discretize and        *)
(* center_slab makes no sbatch call and does not get as far as the check   *)
(* of the input files.                                                     *)
C16_ExclusiveSlabFlags ==
    BothSlabFlags => calls = <<>> /\ pc \in {"start", "process", "error"}


(* slabwidth > 0 and zmax > zmin, and for a discretized run a range of at  *)
(* least one width and at least two bin edges.                             *)
RangeInOrder(a, edges) ==
    LET number(k) == DGet(a, k).t \in {"int", "float"} /\ ~IsNaN(DGet(a, k))
    IN  /\ number("slabwidth") /\ number("zmin") /\ number("zmax")
        /\ Milli(DGet(a, "slabwidth")) > 0
        /\ Milli(DGet(a, "zmax")) > Milli(DGet(a, "zmin"))
        /\ Truthy(DGet(a, "discretize")) =>
               /\ Milli(DGet(a, "zmax")) - Milli(DGet(a, "zmin"))
                      >= Milli(DGet(a, "slabwidth"))
               /\ Len(edges) >= 2

(* C27: at every sbatch call of an analysis submit script slabwidth > 0    *)
(* and zmax > zmin hold, and with discretize set zmax - zmin >= slabwidth  *)
(* and there are at least two bin edges; options that violate one of       *)
(* these raise ValueError before any sbatch call.                          *)
C27_RangeInvariants ==
    /\ calls # <<>> => RangeInOrder(args, bin_edges)
    /\ (pc \in {"files", "submit", "done", "error"}
        /\ ~Truthy(DGet(args, "center_slab"))
        /\ ~RangeInOrder(args, IF Truthy(DGet(args, "discretize"))
                               THEN <<0, 0>> ELSE <<>>))
           => err = "ValueError" /\ calls = <<>>
(***************************************************************************)
(* Properties of the direct calls of convert_str and optlist2dict.         *)
(***************************************************************************)
(* The values v of the doctests, lines 424-437. *)
RoundTripValues ==
    {PyNone, PyTrue, PyFalse, PyInt(0), PyInt(1), PyInt(123), PyFloat("123.456")}

(* Inputs that are no keyword and that neither int() nor float() accepts. *)
NotConvertible ==
    {"yes", "Yes", "no", "No", "on", "ON", "off", " Off ",
     "", " ", "a123", "12a", " a123", "A sTrInG", " A sTrInG ",
     "1.2.3", "--5", "1,5", "-", "+", ".", "- 5", "1 2", "0x1F",
     "None.", "Truee", "not", "t", "f", "null"}

(* C19: convert_str with its default settings gives back v for str(v) of   *)
(* every v in {None, True, False, 0, 1, 123, 123.456}; a string that is    *)
(* none of none/true/false (whatever its case and the blanks around it)    *)
(* and that is no integer and no float comes back as it was given, neither *)
(* stripped nor lower-cased; yes/no/on/off stay strings, and "1" and "0"   *)
(* become the integers 1 and 0, not booleans.                              *)
C19_ConvertStrRoundTrip ==
    (called.fn = "convert_str" /\ returned # <<>>) =>
        LET s == called.arg
            r == returned[1]
        IN  /\ \A v \in RoundTripValues : s = v.s => r = v
            /\ s \in NotConvertible => r = PyStr(s)
            /\ r.t = "str" => r.s = s
            /\ s \in {"yes", "no", "on", "off"} => r.t = "str"
            /\ s \in {"0", "1"} => r = [t |-> "int", s |-> s]

C19_Witness ==
    /\ called = [fn |-> "convert_str", arg |-> " A sTrInG "]
    /\ returned = <<PyStr(" A sTrInG ")>>

(* The scan as a relation between the token list toks and the dictionary.  *)
(* The flags are the tokens that start with a hyphen.                      *)
FlagsOf(toks) == {i \in 1..Len(toks) : StartsWith(toks[i], "-")}

(* The flag that is open at token i: the last one up to i, 0 if none.      *)
OpenAt(toks, i) ==
    LET before == {j \in FlagsOf(toks) : j <= i}
    IN  IF before = {} THEN 0 ELSE CHOOSE j \in before : \A h \in before : h <= j

(* The key that flag j opens; 0 stands for the tokens before any flag.     *)
NameAt(toks, j) == IF j = 0 THEN "" ELSE LStrip(toks[j], "-")

ScanKeys(toks) == {NameAt(toks, OpenAt(toks, i)) : i \in 1..Len(toks)}

(* Where key k was opened last. *)
LastOpening(toks, k) ==
    LET opened == {j \in FlagsOf(toks) \cup {0} : NameAt(toks, j) = k}
    IN  CHOOSE j \in opened : \A h \in opened : h <= j

RECURSIVE ValuesFrom(_, _, _)
ValuesFrom(toks, i, j) ==
    IF i > Len(toks) THEN <<>>
    ELSE (IF i \notin FlagsOf(toks) /\ OpenAt(toks, i) = j THEN <<toks[i]>> ELSE <<>>)
         \o ValuesFrom(toks, i + 1, j)

(* The tokens that follow the last opening of key k, joined with blanks.   *)
ScanValue(toks, k) == JoinWith(ValuesFrom(toks, 1, LastOpening(toks, k)), " ")

IsDict(d) == Cardinality(DKeys(d)) = Len(d)

StrippedTokens(optlist) == [i \in 1..Len(optlist) |-> Strip(optlist[i])]

Matches(toks, o) == {i \in 1..Len(toks) : StartsWith(toks[i], Strip(o))}

(* These tokens, each with the token after it unless it contains "=". *)
Removed(toks, o) ==
    Matches(toks, o)
    \cup {i + 1 : i \in {j \in Matches(toks, o) : ~Contains(toks[j], "=")}}

RECURSIVE KeptFrom(_, _, _)
KeptFrom(toks, i, o) ==
    IF i > Len(toks) THEN <<>>
    ELSE (IF i \in Removed(toks, o) THEN <<>> ELSE <<toks[i]>>)
         \o KeptFrom(toks, i + 1, o)

(* Each option of the tuple is removed in turn. *)
RECURSIVE KeptAll(_, _)
KeptAll(toks, option) ==
    IF option = <<>> THEN toks
    ELSE KeptAll(KeptFrom(toks, 1, Head(option)), Tail(option))

RmCalled(fn) == called.fn = fn /\ returned # <<>>

(* What is left of the command is what is left of its tokens. *)
RemovesOptions(cmd, option, r) ==
    /\ r.err = ""
    /\ shlex_split(r.cmd) = KeptAll(shlex_split(cmd), option)
    /\ (\A i \in 1..Len(option) : ~Contains(cmd, option[i])) => r.cmd = cmd

(* C21: opthandler.rm_option removes every token that starts with the      *)
(* option, together with the token after it when the removed token has no  *)
(* "=", for every number of occurrences; all other tokens are kept in      *)
(* their order; the options of a list or tuple are removed in turn; a      *)
(* command without the option is returned unchanged.                       *)
C21_RmOptionRemovesOption ==
    RmCalled("opthandler.rm_option") =>
        RemovesOptions(called.arg.cmd, called.arg.option, returned[1])

(* C25: rm_option of submit_gmx_mdrun.py removes every occurrence of the    *)
(* option with its value, also when the option occurs more than once, and  *)
(* no other token, so that the command of a resubmitted job holds no       *)
(* dependency of the user and every other option of the first job.         *)
C25_MdrunRmOptionRemovesAll ==
    RmCalled("submit_gmx_mdrun.rm_option") =>
        /\ RemovesOptions(called.arg.cmd, called.arg.option, returned[1])
        /\ \A i \in 1..Len(called.arg.option) :
               Matches(shlex_split(returned[1].cmd), called.arg.option[i]) = {}

(***************************************************************************)
(* Properties of python/gmx.py and python/strng.py.                        *)
(***************************************************************************)
(* The file read line by line from its start. *)
AllLines(file) == SplitLines(file, <<>>)

TailReturned == called.fn = "tail" /\ returned # <<>>

(* lines are the last min(n, total) lines of the file, in their order. *)
IsTailOf(lines, file, n) ==
    LET all == AllLines(file)
        total == Len(all)
        count == IF n <= 0 THEN 0 ELSE IF n < total THEN n ELSE total
    IN  /\ Len(lines) = count
        /\ \A i \in 1..count : lines[i] = all[total - count + i]

(* A pass of the loop of tail moves the cursor towards the start of the    *)
(* file, or finds it there, and no pass follows one that found it there.   *)
TailSeekMovesBack ==
    (called.fn = "tail" /\ locals # <<>> /\ locals' # locals) =>
        /\ ~locals[1].at_start
        /\ locals'[1].pos >= 0
        /\ locals'[1].pos < locals[1].pos \/ locals'[1].at_start

(* C22: for every file and every n > 0, tail(fname, n) returns exactly     *)
(* min(n, number of lines) lines, in their order, equal to the last n      *)
(* lines of the file read line by line, for files smaller and larger than  *)
(* the seek step of 10*n characters; for n <= 0 it returns the empty list; *)
(* the loop that seeks backwards terminates.                               *)
C22_TailLastLines ==
    /\ [](TailReturned =>
              /\ returned[1].err = ""
              /\ IsTailOf(returned[1].lines, called.arg.file, called.arg.n))
    /\ [][TailSeekMovesBack]_vars

(* The tokens of a text: the maximal runs of characters that are no        *)
(* blanks, by the positions of their first and last character.             *)
TokenStarts(s) ==
    {i \in 1..Len(s) : ~IsSpaceChar(s[i]) /\ (i = 1 \/ IsSpaceChar(s[i - 1]))}

TokenEnd(s, i) ==
    CHOOSE j \in i..Len(s) :
        /\ \A k \in i..j : ~IsSpaceChar(s[k])
        /\ j = Len(s) \/ IsSpaceChar(s[j + 1])

DecimalDigits == {"0", "1", "2", "3", "4", "5", "6", "7", "8", "9"}

(* The tokens made of digits only. *)
DigitTokenStarts(s) ==
    {i \in TokenStarts(s) : \A k \in i..TokenEnd(s, i) : s[k] \in DecimalDigits}

RECURSIVE ValueOfDigits(_, _, _)
ValueOfDigits(s, i, j) ==
    IF j < i THEN 0
    ELSE 10 * ValueOfDigits(s, i, j - 1)
         + (CHOOSE d \in 0..9 : ToString(d) = s[j])

(* C23: for every text, extract_ints_from_str gives, in their order, the   *)
(* integer values of exactly the whitespace-separated tokens made of digit *)
(* characters only; tokens with a sign or a decimal point are skipped, a   *)
(* text without such tokens gives the empty list; no exception is raised.  *)
C23_ExtractInts ==
    (called.fn = "extract_ints_from_str" /\ returned # <<>>) =>
        LET s == called.arg
            r == returned[1]
            starts == DigitTokenStarts(s)
            before(i) == Cardinality({j \in starts : j < i})
        IN  /\ r.err = ""
            /\ Len(r.ints) = Cardinality(starts)
            /\ \A i \in starts :
                   r.ints[before(i) + 1] = ValueOfDigits(s, i, TokenEnd(s, i))

(***************************************************************************)
(* Properties of configparser_check_options.                               *)
(***************************************************************************)
(* The options of the sections of a parser, as the parser gives them. *)
AllOptions(parser) ==
    UNION {config_options(parser, sec) : sec \in DOMAIN parser.secs}

(* Two names are the same when case, and hyphens against underscores if    *)
(* hyphens_are_underscores is set, are ignored.                            *)
SameIgnoringCase(a, b, hyphens_are_underscores) ==
    IF hyphens_are_underscores
    THEN Lower(ReplaceChar(a, "-", "_")) = Lower(ReplaceChar(b, "-", "_"))
    ELSE Lower(a) = Lower(b)

(* C24: with case_sensitive=False, configparser_check_options compares     *)
(* option names ignoring case: an option that differs from a known option  *)
(* only in case raises no KeyError, for either setting of                  *)
(* hyphens_are_underscores; KeyError is raised exactly when an option of a *)
(* checked section matches no known option.                                *)
C24_CaseInsensitiveCheck ==
    (/\ called.fn = "configparser_check_options"
     /\ ~called.arg.case_sensitive
     /\ returned # <<>>) =>
        LET a == called.arg
            unknown == {o \in AllOptions(a.config) :
                            \A i \in 1..Len(a.known_options) :
                                ~SameIgnoringCase(o, a.known_options[i],
                                                  a.hyphens_are_underscores)}
        IN  returned[1] = "KeyError" <=> unknown # {}

(***************************************************************************)
(* The baseline scheduler options and the chains.                          *)
(***************************************************************************)

(* The job IDs the script has taken from the output of sbatch. *)
CapturedIds == {job_ids[i].v : i \in 1..Len(job_ids)}

(* The command of a job with the scheduler options get_opts returned. *)
BaselineCmd(job) ==
    IF job.bin = 0
    THEN _assemble_submit_cmd(family, args, nbins, options[secs_unknown[1]],
                              job.script)
    ELSE _submit_discretized(family, args, options[secs_unknown[1]],
                             job.script, bin_edges, job.bin)

(* A call with args_sbatch that comes after a call whose job ID a chain    *)
(* depends on.                                                             *)
BaselineAfterChain(j) ==
    /\ calls[j].job.opts = "args_sbatch"
    /\ \E i \in 1..(j - 1) :
           /\ calls[i].job.capture # ""
           /\ \E k \in (i + 1)..(j - 1) : calls[k].job.opts # "args_sbatch"

(* C29: in a run of an analysis submit script, args_sbatch stays the       *)
(* dictionary of scheduler options get_opts returned, and every sbatch     *)
(* call that is not downstream of a chain has the command of these         *)
(* options, with no dependency on a job the script has submitted,          *)
(* whatever chains ran before it.                                          *)
C29_BaselineUnchanged ==
    (family \in {"gmx", "mdt"} /\ pc # "start") =>
        /\ args_sbatch = options[secs_unknown[1]]
        /\ \A j \in 1..Len(calls) :
               calls[j].job.opts = "args_sbatch" =>
                   /\ calls[j].cmd = BaselineCmd(calls[j].job)
                   /\ \A id \in CapturedIds : ~DependsOn(calls[j].cmd, id)

C29_Witness ==
    /\ family \in {"gmx", "mdt"}
    /\ pc = "done"
    /\ \E j \in 1..Len(calls) : BaselineAfterChain(j)


(***************************************************************************)
(* Properties of the file check of the MDTools script.                     *)
(***************************************************************************)
(* The files the selection requires, each with its type: the entries of    *)
(* the dictionary files before a compressed copy takes the place of the    *)
(* energy file.                                                            *)
RequiredFiles ==
    LET tokens == Split(argv[6])
        labels == Flatten([i \in 1..Len(tokens) |-> MdtRequires(tokens[i])])
    IN  {Item(labels[i], FileOfType(InputFiles(argv[4], argv[2]), labels[i])) :
            i \in 1..Len(labels)}

IsDtrj(item) == StartsWith(item.k, "discretized trajectory")

(* The script is past its file check. *)
FilesChecked ==
    family = "mdt" /\ args # <<>> /\ pc \in {"submit", "done", "error"}

(* The file check has raised FileNotFoundError for the file of item. *)
RaisedFor(item) ==
    /\ pc = "error"
    /\ err = "FileNotFoundError"
    /\ calls = <<>>
    /\ errmsg = "'" \o item.v \o "' (" \o item.k \o " file)"

(* A required file counts as absent: a discretized trajectory if neither   *)
(* the .npy file nor the .npz archive exists, a file of another type if it *)
(* does not exist under its own name.                                      *)
CountsAsAbsent(item) ==
    /\ item.v \in missing
    /\ IsDtrj(item) => (splitext(item.v)[1] \o ".npz") \in missing

(* C28: a required discretized trajectory <stem>.npy counts as present if  *)
(* <stem>.npy or <stem>.npz exists, and FileNotFoundError is raised for it *)
(* only if neither exists; for a required file of another type no other    *)
(* name is accepted, and its absence raises FileNotFoundError naming the   *)
(* file and its type.                                                      *)
C28_DtrjTolerance ==
    FilesChecked =>
        /\ (pc = "error" /\ err = "FileNotFoundError")
               => \E item \in RequiredFiles :
                      CountsAsAbsent(item) /\ RaisedFor(item)
        /\ (\E item \in RequiredFiles : CountsAsAbsent(item))
               => (pc = "error" /\ err = "FileNotFoundError")

(* The energy file counts as absent only if neither the file nor one of    *)
(* its compressed copies exists.                                           *)
CountsAsAbsentOrCompressed(item) ==
    /\ CountsAsAbsent(item)
    /\ item.k = "energy" => Copies(item.v) \subseteq missing

(* C28 with the energy file accepted under the names of its compressed     *)
(* copies: a required file that counts as absent raises FileNotFoundError  *)
(* before any sbatch call, naming the file and its type, the energy file   *)
(* by its name alone, and no other file raises it.                         *)
C28_DtrjToleranceButEnergy ==
    FilesChecked =>
        /\ (pc = "error" /\ err = "FileNotFoundError")
               => \E item \in RequiredFiles :
                      /\ CountsAsAbsentOrCompressed(item)
                      /\ IF item.k = "energy"
                         THEN calls = <<>> /\ errmsg = item.v
                         ELSE RaisedFor(item)
        /\ (\E item \in RequiredFiles : CountsAsAbsentOrCompressed(item))
               => (pc = "error" /\ err = "FileNotFoundError")

(* A run whose discretized trajectory exists as .npz archive only has      *)
(* passed the file check and made an sbatch call.                          *)
C28_Witness ==
    /\ FilesChecked
    /\ calls # <<>>
    /\ \E item \in RequiredFiles :
          /\ IsDtrj(item)
          /\ item.v \in missing
          /\ (splitext(item.v)[1] \o ".npz") \notin missing

(***************************************************************************)
(* Properties of the sbatch command of submit_gmx_mdrun.py.                *)
(***************************************************************************)
(* The script has parsed its command line and --sbatch was given. *)
SbatchGiven ==
    /\ family = "mdrun"
    /\ args # <<>>
    /\ DGet(args, "SB_OPTIONS") \notin {PyNone, PyStr("")}

(* The tokens of the string given to --sbatch. *)
GivenTokens == shlex_split(DGet(args, "SB_OPTIONS").s)

(* --requeue is set and --no-requeue is given to --sbatch, or --requeue is  *)
(* not set and --requeue is given to --sbatch.                             *)
RequeueConflict ==
    LET given == {GivenTokens[i] : i \in 1..Len(GivenTokens)}
    IN  \/ DGet(args, "REQUEUE") = PyTrue /\ "--no-requeue" \in given
        \/ DGet(args, "REQUEUE") # PyTrue /\ "--requeue" \in given

(* The sbatch command holds both --requeue and --no-requeue as words of    *)
(* their own.                                                              *)
BothRequeueFlags ==
    LET words == " " \o sbatch \o " "
    IN  /\ Contains(words, " --requeue ")
        /\ Contains(words, " --no-requeue ")

(* C26: with conflicting requeue options (--requeue set and --no-requeue   *)
(* in --sbatch, or --requeue not set and --requeue in --sbatch) the script *)
(* raises ValueError instead of constructing the sbatch command, and the   *)
(* constructed command never holds both --requeue and --no-requeue.        *)
C26_RequeueConflict ==
    (family = "mdrun" /\ sbatch # "") =>
        /\ SbatchGiven => ~RequeueConflict
        /\ ~BothRequeueFlags

(* The names of the options given to --sbatch: the tokens that start with  *)
(* "-", without "=" and what follows it.                                   *)
GivenOptions ==
    {SplitAt(GivenTokens[i], "=")[1] :
        i \in {j \in 1..Len(GivenTokens) : StartsWith(GivenTokens[j], "-")}}

(* The options that the script itself puts on the sbatch command line. *)
OwnOptions ==
    LET sb == DGet(args, "SB_OPTIONS").s
    IN  {"--" \o SubSeq(args[i].k, Len("SBATCH_") + 1, Len(args[i].k)) :
            i \in {j \in 1..Len(args) : /\ StartsWith(args[j].k, "SBATCH_")
                                        /\ args[j].v # PyNone}}
        \cup (IF ~Contains(sb, "--job-name") /\ ~Contains(sb, "-J ")
                 /\ ~Contains(sb, "-J=")
              THEN {"--job-name"} ELSE {})
        \cup (IF ~Contains(sb, "--output") /\ ~Contains(sb, "-o ")
                 /\ ~Contains(sb, "-o=")
              THEN {"--output"} ELSE {})
        \cup (IF DGet(args, "NON_EXCLUSIVE") # PyTrue
                 /\ ~Contains(sb, "--exclusive")
              THEN {"--exclusive"} ELSE {})
        \cup (IF DGet(args, "REQUEUE") = PyTrue /\ ~Contains(sb, "--requeue")
              THEN {"--requeue"}
              ELSE IF DGet(args, "REQUEUE") # PyTrue
                      /\ ~Contains(sb, "--no-requeue")
              THEN {"--no-requeue"} ELSE {})

(* The script has come to the collision check: the arguments and the input *)
(* files are in order, --sbatch was given, and none of the checks before   *)
(* the collision check rejects it.                                         *)
CollisionChecked ==
    /\ SbatchGiven
    /\ pc \in {"submit", "done", "error"}
    /\ MdrunValidate(args).err = ""
    /\ MdrunCheckFiles(args, missing).err = ""
    /\ ~(DGet(args, "NON_EXCLUSIVE") = PyTrue
         /\ Contains(DGet(args, "SB_OPTIONS").s, "--exclusive"))
    /\ ~(Contains(DGet(args, "SB_OPTIONS").s, "--requeue")
         /\ Contains(DGet(args, "SB_OPTIONS").s, "--no-requeue"))
    /\ ~((DGet(args, "NO_GUESS_THREADS") = PyTrue
          \/ DGet(args, "GMX_MPI_EXE") \notin {PyNone, PyInt(0)})
         /\ ~Contains(DGet(args, "SB_OPTIONS").s, "--ntasks-per-node"))
    /\ ~Contains(DGet(args, "SB_OPTIONS").s, "--signal")

(* C30: an option given to --sbatch is rejected with ValueError if and     *)
(* only if the script itself has put that option on the sbatch command     *)
(* line; options the script did not set, such as -d or -n, are accepted    *)
(* and appended unchanged.                                                 *)
C30_SbatchCollision ==
    CollisionChecked =>
        /\ (sbatch = "" /\ err = "ValueError")
               <=> GivenOptions \cap OwnOptions # {}
        /\ sbatch # "" =>
               EndsWith(sbatch, " " \o DGet(args, "SB_OPTIONS").s)
====
